---------------------------- MODULE Spec2Model ----------------------------
(***************************************************************************)
(* A model of comfy-table's layout engine: the line splitter, the          *)
(* constraint resolver, the width arrangement, the span tracker, the       *)
(* content formatter and the border renderer.                              *)
(*                                                                         *)
(* Text is a sequence of one-character strings.  A character is a whole    *)
(* grapheme; "W" and "M" are two columns wide on the terminal, every other *)
(* character is one column wide.                                           *)
(***************************************************************************)
EXTENDS Integers, Sequences, FiniteSets, TLC

VARIABLES
    pc,                \* the position inside the call that is being modelled
    split_in,          \* split_line: [line, content_width, delimiter]
    split_out,         \* split_line: the returned fragments
    split_trace,       \* split_line: the stack of elements and the current line
                       \* before each pass of its loop and behind the last
    table,             \* the Table: columns, header, rows, arrangement, width, style
    added,             \* Table: the rows given to set_header and add_row so far
    infos,             \* arrange_content: column index -> ColumnDisplayInfo
    remaining_width,   \* dynamic::arrange: the width not yet given to a column
    remaining_columns, \* dynamic::arrange: the visible columns without a width
    passes,            \* dynamic::arrange: per pass of the last while loop, the
                       \* count of columns with a width when the pass began
    table_content,     \* format_content: per row its lines, per line its parts
    row_tracker,       \* SpanTracker: the tracker format_content hands to format_row
    tracked_row,       \* format_content: the index of the row that is processed
    placed_cells,      \* format_row: the cells placed so far, with their spans
    padded,            \* smart_pad_content: the content, the infos of the visible
                       \* columns and the width that is left behind the pass
    output             \* draw_borders: the lines of the output

vars == <<pc, split_in, split_out, split_trace, table, added, infos,
          remaining_width, remaining_columns, passes, table_content, padded, output,
          row_tracker, tracked_row, placed_cells>>
buildVars == <<table, added>>
trackerVars == <<row_tracker, tracked_row, placed_cells>>
splitVars == <<split_in, split_out, split_trace>>
arrangeVars == <<infos, remaining_width, remaining_columns, passes>>
renderVars == <<table_content, padded, output>>

---------------------------------------------------------------------------
(* Bounds of the model *)

MaxLineLen == 5      \* longest line handed to split_line
MaxSplitWidth == 5   \* widest target width handed to split_line
MaxBound == 9        \* largest width a column constraint names
MaxTableWidth == 20  \* widest table
SpanCols == 3        \* columns of a table with spans
SpanRows == 3        \* rows of a table with spans, the header included

---------------------------------------------------------------------------
(* Text helpers *)

None == "None"

Min(a, b) == IF a < b THEN a ELSE b
Max(a, b) == IF a > b THEN a ELSE b
saturating_sub(a, b) == IF a > b THEN a - b ELSE 0

WideChars == {"W", "M"}

\* unicode_width: the number of terminal columns of one character
CharWidth(c) == IF c \in WideChars THEN 2 ELSE 1

RECURSIVE measure_text_width(_)
measure_text_width(s) ==
    IF s = <<>> THEN 0 ELSE CharWidth(Head(s)) + measure_text_width(Tail(s))

RECURSIVE repeat(_, _)
repeat(c, n) == IF n <= 0 THEN <<>> ELSE <<c>> \o repeat(c, n - 1)

RECURSIVE SeqMax(_)
SeqMax(s) == IF s = <<>> THEN 0 ELSE Max(Head(s), SeqMax(Tail(s)))

RECURSIVE SeqSum(_)
SeqSum(s) == IF s = <<>> THEN 0 ELSE Head(s) + SeqSum(Tail(s))

\* str::split(delimiter): the elements between the delimiters, empty ones kept
RECURSIVE str_split(_, _, _)
str_split(s, delimiter, cur) ==
    IF s = <<>> THEN <<cur>>
    ELSE IF Head(s) = delimiter
         THEN <<cur>> \o str_split(Tail(s), delimiter, <<>>)
         ELSE str_split(Tail(s), delimiter, Append(cur, Head(s)))

---------------------------------------------------------------------------
(* utils/formatting/content_split.rs *)

MIN_FREE_CHARS == 2

\* (lines, current_line) after the check
check_if_full(lines, content_width, current_line) ==
    IF measure_text_width(current_line) > saturating_sub(content_width, MIN_FREE_CHARS)
    THEN <<Append(lines, current_line), <<>>>>
    ELSE <<lines, current_line>>

\* <<splitted, remaining>>: the longest prefix of word that is at most
\* allowed_width columns wide, and the rest
RECURSIVE split_long_word_from(_, _, _, _)
split_long_word_from(allowed_width, word, current_width, splitted) ==
    IF word = <<>> \/ current_width + CharWidth(Head(word)) > allowed_width
    THEN <<splitted, word>>
    ELSE split_long_word_from(allowed_width, Tail(word),
                              current_width + CharWidth(Head(word)),
                              Append(splitted, Head(word)))

\* A variant of split_long_word that leaves the last column of the room free
split_long_word_short(allowed_width, word) ==
    split_long_word_from(allowed_width - 1, word, 0, <<>>)

\* A variant of split_long_word that loses the first character of a rest of
\* two characters or more
split_long_word_lossy(allowed_width, word) ==
    <<split_long_word_from(allowed_width, word, 0, <<>>)[1],
      IF Len(split_long_word_from(allowed_width, word, 0, <<>>)[2]) < 2
      THEN split_long_word_from(allowed_width, word, 0, <<>>)[2]
      ELSE Tail(split_long_word_from(allowed_width, word, 0, <<>>)[2])>>

split_long_word(allowed_width, word) ==
    split_long_word_from(allowed_width, word, 0, <<>>)

\* A variant of longer_than_line that has every element split that does not
\* fit behind the current line
longer_than_rest(next_length, content_width) == next_length >= 0

\* split_line, case 1: the element is longer than the content width
longer_than_line(next_length, content_width) == next_length > content_width

\* A variant of push_first_char that takes the first two characters
push_first_chars(parts) ==
    <<SubSeq(parts[2], 1, Min(2, Len(parts[2]))), SubSeq(parts[2], 3, Len(parts[2]))>>

\* split_line, case 1 on a new line when nothing of the word fits: the first
\* character is taken all the same
push_first_char(parts) == <<<<Head(parts[2])>>, Tail(parts[2])>>

\* One pass of the while loop of split_line: <<elements, current_line,
\* lines>> after it; elements has the next element at its head.
split_step(elements, current_line, lines, content_width, delimiter) ==
      LET next == Head(elements)
          rest == Tail(elements)
          current_length == measure_text_width(current_line)
          next_length == measure_text_width(next)
          added_length == next_length + current_length
                          + (IF current_line # <<>> THEN 1 ELSE 0)
          remaining_in_line ==
              IF current_line # <<>>
              THEN saturating_sub(content_width - current_length, 1)
              ELSE content_width - current_length
      IN
      IF added_length <= content_width
      THEN \* the next element fits into the current line
           LET joined == IF current_line # <<>>
                         THEN current_line \o <<delimiter>> \o next
                         ELSE next
               chk == check_if_full(lines, content_width, joined)
           IN <<rest, chk[2], chk[1]>>
      ELSE IF current_line # <<>> /\ remaining_in_line <= MIN_FREE_CHARS
      THEN \* not enough room left: close the line, retry the element
           <<elements, <<>>, Append(lines, current_line)>>
      ELSE IF longer_than_line(next_length, content_width)
      THEN \* Case 1: the element is longer than a whole line
           LET new_line == (current_line = <<>>)
               started == IF new_line THEN current_line
                          ELSE Append(current_line, delimiter)
               parts == split_long_word(remaining_in_line, next)
               forced == IF new_line /\ parts[1] = <<>>
                         THEN push_first_char(parts) ELSE parts
           IN <<<<forced[2]>> \o rest, <<>>, Append(lines, started \o forced[1])>>
      ELSE \* Case 2: the element fits into a line of its own
           LET chk == check_if_full(Append(lines, current_line),
                                    content_width, next)
           IN <<rest, chk[2], chk[1]>>

\* The while loop of split_line and the push of the last line behind it; st
\* is <<elements, current_line, lines>>
RECURSIVE split_loop(_, _, _, _, _)
split_next(st, content_width, delimiter) ==
    split_loop(st[1], st[2], st[3], content_width, delimiter)

split_loop(elements, current_line, lines, content_width, delimiter) ==
    IF elements = <<>>
    THEN IF current_line # <<>> THEN Append(lines, current_line) ELSE lines
    ELSE split_next(split_step(elements, current_line, lines, content_width,
                               delimiter),
                    content_width, delimiter)

\* The stack of elements and the current line before each pass of the while
\* loop of split_line and behind its last pass
RECURSIVE split_passes(_, _, _)
split_passes(st, content_width, delimiter) ==
    <<[elements |-> st[1], current_line |-> st[2]]>>
    \o (IF st[1] = <<>> THEN <<>>
        ELSE split_passes(split_step(st[1], st[2], st[3], content_width, delimiter),
                          content_width, delimiter))

split_line_passes(line, info, delimiter) ==
    split_passes(<<str_split(line, delimiter, <<>>), <<>>, <<>>>>,
                 info.content_width, delimiter)

split_line(line, info, delimiter) ==
    split_loop(str_split(line, delimiter, <<>>), <<>>, <<>>,
               info.content_width, delimiter)

---------------------------------------------------------------------------
(* style/table.rs, style/column.rs, table.rs, column.rs, row.rs, cell.rs *)

TableComponents ==
    {"LeftBorder", "RightBorder", "TopBorder", "BottomBorder",
     "LeftHeaderIntersection", "HeaderLines", "MiddleHeaderIntersections",
     "RightHeaderIntersection", "VerticalLines", "HorizontalLines",
     "MiddleIntersections", "LeftBorderIntersections",
     "RightBorderIntersections", "TopBorderIntersections",
     "BottomBorderIntersections", "TopLeftCorner", "TopRightCorner",
     "BottomLeftCorner", "BottomRightCorner"}

\* presets::ASCII_FULL, "||--+==+|-+||++++++", loaded by Table::load_preset
ASCII_FULL ==
    [c \in TableComponents |->
        CASE c \in {"LeftBorder", "RightBorder", "VerticalLines",
                    "LeftBorderIntersections", "RightBorderIntersections"} -> "|"
          [] c \in {"TopBorder", "BottomBorder", "HorizontalLines"} -> "-"
          [] c \in {"HeaderLines", "MiddleHeaderIntersections"} -> "="
          [] OTHER -> "+"]

\* Table::style_or_default: a blank for a component without a character
style_or_default(t, component) ==
    IF t.style[component] = None THEN " " ELSE t.style[component]

\* Table::style_exists
style_exists(t, component) == t.style[component] # None

\* Option<u16> of the table width
NoWidth == [some |-> FALSE, v |-> 0]
SomeWidth(n) == [some |-> TRUE, v |-> n]

\* Width::Fixed and Width::Percentage, and the ColumnConstraint variants
Fixed(n) == [kind |-> "Fixed", v |-> n]
Percentage(p) == [kind |-> "Percentage", v |-> p]
NoConstraint == [kind |-> None, width |-> Fixed(0)]
Hidden == [kind |-> "Hidden", width |-> Fixed(0)]
ContentWidth == [kind |-> "ContentWidth", width |-> Fixed(0)]
Absolute(w) == [kind |-> "Absolute", width |-> w]
LowerBoundary(w) == [kind |-> "LowerBoundary", width |-> w]
UpperBoundary(w) == [kind |-> "UpperBoundary", width |-> w]

\* Cell::new: the content split at newlines, no span
Cell_new(content) ==
    [content |-> content, delimiter |-> None, alignment |-> None,
     colspan |-> 1, rowspan |-> 1]

\* Row::from: a cell of one line for each content; max_height is <<lines>>
\* for Some(lines) and <<>> for None
Row_from(contents) ==
    [cells |-> [i \in 1..Len(contents) |-> Cell_new(<<contents[i]>>)],
     max_height |-> <<>>]

\* Row::add_cell
add_cell(row, cell) == [row EXCEPT !.cells = Append(@, cell)]

\* Row::max_height
max_height(row, lines) == [row EXCEPT !.max_height = <<lines>>]

set_colspan(cell, cols) == [cell EXCEPT !.colspan = cols]
set_rowspan(cell, n) == [cell EXCEPT !.rowspan = n]

\* String::len of a line: "W" and "M" are three bytes in UTF-8
ByteLen(c) == IF c \in WideChars THEN 3 ELSE 1

RECURSIVE string_len(_)
string_len(s) == IF s = <<>> THEN 0 ELSE ByteLen(Head(s)) + string_len(Tail(s))

\* Row::max_content_widths: per cell the longest line
max_content_widths(row) ==
    [i \in 1..Len(row.cells) |->
        SeqMax([l \in 1..Len(row.cells[i].content) |->
                    string_len(row.cells[i].content[l])])]

\* Column::new
Column_new(index) ==
    [index |-> index, padding |-> <<1, 1>>, delimiter |-> None,
     constraint |-> NoConstraint, max_content_width |-> 0,
     cell_alignment |-> None]

\* Table::new, with the preset the constructor loads; the header is <<row>>
\* for Some(row) and <<>> for None; the truncation indicator is "..."
Table_new ==
    [columns |-> <<>>, header |-> <<>>, rows |-> <<>>,
     arrangement |-> "Disabled", width |-> NoWidth, delimiter |-> None,
     style |-> ASCII_FULL, truncation_indicator |-> <<".", ".", ".">>,
     smart_padding_width |-> 0]

NoTable == Table_new

\* Table::autogenerate_columns: one column for every cell of the row
autogenerate_columns(t, row) ==
    IF Len(row.cells) > Len(t.columns)
    THEN [t EXCEPT !.columns =
            [i \in 1..Len(row.cells) |->
                IF i <= Len(t.columns) THEN t.columns[i] ELSE Column_new(i)]]
    ELSE t

\* Table::adjust_max_column_widths
adjust_max_column_widths(t, row) ==
    LET widths == max_content_widths(row)
    IN [t EXCEPT !.columns =
            [i \in 1..Len(t.columns) |->
                IF i <= Len(widths) /\ t.columns[i].max_content_width < widths[i]
                THEN [t.columns[i] EXCEPT !.max_content_width = widths[i]]
                ELSE t.columns[i]]]

set_header(t, row) ==
    [adjust_max_column_widths(autogenerate_columns(t, row), row)
        EXCEPT !.header = <<row>>]

add_row(t, row) ==
    LET u == adjust_max_column_widths(autogenerate_columns(t, row), row)
    IN [u EXCEPT !.rows = Append(u.rows, row)]

set_constraint(t, i, constraint) == [t EXCEPT !.columns[i].constraint = constraint]
set_padding(t, i, padding) == [t EXCEPT !.columns[i].padding = padding]

\* Column::is_hidden, get_padding_width, get_max_width
is_hidden(column) == column.constraint.kind = "Hidden"
get_padding_width(column) == column.padding[1] + column.padding[2]
get_max_width(column) == column.max_content_width + get_padding_width(column)

\* ColumnDisplayInfo::new(column, content_width): never a content width of 0
ColumnDisplayInfo_new(column, content_width) ==
    [padding |-> column.padding, delimiter |-> column.delimiter,
     content_width |-> Max(content_width, 1),
     cell_alignment |-> column.cell_alignment, is_hidden |-> FALSE]

\* ColumnDisplayInfo::width
info_width(info) == info.content_width + info.padding[1] + info.padding[2]

\* BTreeMap::insert
insert(map, key, value) ==
    [k \in DOMAIN map \cup {key} |-> IF k = key THEN value ELSE map[k]]

---------------------------------------------------------------------------
(* utils/formatting/borders.rs: which borders are drawn *)

should_draw_top_border(t) ==
    \/ style_exists(t, "TopLeftCorner") \/ style_exists(t, "TopBorder")
    \/ style_exists(t, "TopBorderIntersections") \/ style_exists(t, "TopRightCorner")

should_draw_bottom_border(t) ==
    \/ style_exists(t, "BottomLeftCorner") \/ style_exists(t, "BottomBorder")
    \/ style_exists(t, "BottomBorderIntersections")
    \/ style_exists(t, "BottomRightCorner")

should_draw_left_border(t) ==
    \/ style_exists(t, "TopLeftCorner") \/ style_exists(t, "LeftBorder")
    \/ style_exists(t, "LeftBorderIntersections")
    \/ style_exists(t, "LeftHeaderIntersection")
    \/ style_exists(t, "BottomLeftCorner")

should_draw_right_border(t) ==
    \/ style_exists(t, "TopRightCorner") \/ style_exists(t, "RightBorder")
    \/ style_exists(t, "RightBorderIntersections")
    \/ style_exists(t, "RightHeaderIntersection")
    \/ style_exists(t, "BottomRightCorner")

should_draw_horizontal_lines(t) ==
    \/ style_exists(t, "LeftBorderIntersections") \/ style_exists(t, "HorizontalLines")
    \/ style_exists(t, "MiddleIntersections")
    \/ style_exists(t, "RightBorderIntersections")

should_draw_vertical_lines(t) ==
    \/ style_exists(t, "TopBorderIntersections")
    \/ style_exists(t, "MiddleHeaderIntersections")
    \/ style_exists(t, "VerticalLines") \/ style_exists(t, "MiddleIntersections")
    \/ style_exists(t, "BottomBorderIntersections")

should_draw_header(t) ==
    \/ style_exists(t, "LeftHeaderIntersection") \/ style_exists(t, "HeaderLines")
    \/ style_exists(t, "MiddleHeaderIntersections")
    \/ style_exists(t, "RightHeaderIntersection")

---------------------------------------------------------------------------
(* utils/arrangement: helpers and the constraint resolver *)

\* The padding is not taken off the width
AbsoluteWidthKeepsPadding(column, w) == IF w <= 0 THEN 1 ELSE w

\* The content width that is left of a width that includes the padding
absolute_width_with_padding(column, w) ==
    LET content_width == w - column.padding[1] - column.padding[2]
    IN IF content_width <= 0 THEN 1 ELSE content_width

count_visible_columns(columns) ==
    Cardinality({i \in 1..Len(columns) : ~is_hidden(columns[i])})

count_remaining_columns(column_count, infs) ==
    column_count - Cardinality({k \in DOMAIN infs : ~infs[k].is_hidden})

count_border_columns(t, visible_columns) ==
    (IF should_draw_left_border(t) THEN 1 ELSE 0)
    + (IF should_draw_right_border(t) THEN 1 ELSE 0)
    + (IF should_draw_vertical_lines(t) THEN saturating_sub(visible_columns, 1) ELSE 0)

get_delimiter(t, column, cell) ==
    IF cell.delimiter # None THEN cell.delimiter
    ELSE IF column.delimiter # None THEN column.delimiter
    ELSE IF t.delimiter # None THEN t.delimiter
    ELSE " "

\* A percentage of the table width without its borders, rounded down
percent_of_width(t, table_width, visible_columns, percent) ==
    (saturating_sub(table_width, count_border_columns(t, visible_columns))
        * percent) \div 100

\* The upper boundary of a column as a width, if it has one
get_max_constraint(t, constraint, table_width, visible_columns) ==
    IF constraint.kind # "UpperBoundary" THEN NoWidth
    ELSE IF constraint.width.kind = "Fixed" THEN SomeWidth(constraint.width.v)
    ELSE IF table_width.some
         THEN SomeWidth(percent_of_width(t, table_width.v, visible_columns,
                                         constraint.width.v))
         ELSE NoWidth

\* The lower boundary of a column as a width, if it has one
get_min_constraint(t, constraint, table_width, visible_columns) ==
    IF constraint.kind # "LowerBoundary" THEN NoWidth
    ELSE IF constraint.width.kind = "Fixed" THEN SomeWidth(constraint.width.v)
    ELSE IF table_width.some
         THEN SomeWidth(percent_of_width(t, table_width.v, visible_columns,
                                         constraint.width.v))
         ELSE NoWidth

\* The infos after the constraint of one column has been looked at
evaluate(t, column, infs, table_width, visible_columns) ==
    LET c == column.constraint
        fixed(w) == insert(infs, column.index,
                           ColumnDisplayInfo_new(column,
                               absolute_width_with_padding(column, w)))
    IN
    CASE c.kind = "ContentWidth" ->
            insert(infs, column.index,
                   ColumnDisplayInfo_new(column, column.max_content_width))
      [] c.kind = "Absolute" /\ c.width.kind = "Fixed" -> fixed(c.width.v)
      [] c.kind = "LowerBoundary" /\ c.width.kind = "Fixed" ->
            IF get_max_width(column) <= c.width.v THEN fixed(c.width.v) ELSE infs
      [] c.kind = "Absolute" /\ c.width.kind = "Percentage" ->
            IF table_width.some
            THEN fixed(percent_of_width(t, table_width.v, visible_columns, c.width.v))
            ELSE infs
      [] c.kind = "LowerBoundary" /\ c.width.kind = "Percentage" ->
            IF table_width.some
            THEN LET w == absolute_width_with_padding(column,
                              percent_of_width(t, table_width.v,
                                               visible_columns, c.width.v))
                 IN IF get_max_width(column) <= w
                    THEN insert(infs, column.index, ColumnDisplayInfo_new(column, w))
                    ELSE infs
            ELSE infs
      [] c.kind = "Hidden" ->
            insert(infs, column.index,
                   [ColumnDisplayInfo_new(column, column.max_content_width)
                        EXCEPT !.is_hidden = TRUE])
      [] OTHER -> infs

\* The loop of arrange_content over the columns that have a constraint
RECURSIVE evaluate_all(_, _, _)
evaluate_all(t, i, infs) ==
    IF i > Len(t.columns) THEN infs
    ELSE evaluate_all(t, i + 1,
            IF t.columns[i].constraint.kind # None
            THEN evaluate(t, t.columns[i], infs, t.width,
                          count_visible_columns(t.columns))
            ELSE infs)

---------------------------------------------------------------------------
(* utils/arrangement/disabled.rs *)

RECURSIVE disabled_arrange_from(_, _, _, _)
disabled_arrange_from(t, i, infs, visible_columns) ==
    IF i > Len(t.columns) THEN infs
    ELSE IF i \in DOMAIN infs THEN disabled_arrange_from(t, i + 1, infs, visible_columns)
    ELSE
      LET column == t.columns[i]
          content == column.max_content_width
          max_width == get_max_constraint(t, column.constraint, t.width,
                                          visible_columns)
          w == IF max_width.some /\ max_width.v < content
               THEN absolute_width_with_padding(column, max_width.v)
               ELSE content
      IN disabled_arrange_from(t, i + 1,
             insert(infs, i, ColumnDisplayInfo_new(column, w)), visible_columns)

\* A variant of disabled::arrange that gives the widths of the content only
\* to a table in the Disabled arrangement, and one column of content to
\* every open column of another table
disabled_arrange_by_mode(t, infs, visible_columns) ==
    IF t.arrangement = "Disabled"
    THEN disabled_arrange_from(t, 1, infs, visible_columns)
    ELSE [i \in DOMAIN infs \cup 1..Len(t.columns) |->
            IF i \in DOMAIN infs THEN infs[i]
            ELSE ColumnDisplayInfo_new(t.columns[i], 1)]

disabled_arrange(t, infs, visible_columns) ==
    disabled_arrange_from(t, 1, infs, visible_columns)

---------------------------------------------------------------------------
(* utils/arrangement/dynamic.rs *)

\* Step 1: the padding of every column without an info is taken off
RECURSIVE subtract_paddings(_, _, _, _)
subtract_paddings(t, infs, i, w) ==
    IF i > Len(t.columns) THEN w
    ELSE subtract_paddings(t, infs, i + 1,
            IF i \in DOMAIN infs THEN w
            ELSE saturating_sub(w, get_padding_width(t.columns[i])))

\* Step 1: the width of every visible column with an info is taken off
RECURSIVE subtract_fixed(_, _, _, _)
subtract_fixed(t, infs, i, w) ==
    IF i > Len(t.columns) THEN w
    ELSE subtract_fixed(t, infs, i + 1,
            IF i \in DOMAIN infs /\ ~infs[i].is_hidden
            THEN saturating_sub(w, info_width(infs[i]))
            ELSE w)

available_content_width(t, infs, visible_columns, w) ==
    subtract_fixed(t, infs, 1,
        subtract_paddings(t, infs, 1,
            saturating_sub(w, count_border_columns(t, visible_columns))))

\* A loop state: the infos, the remaining width and columns, the average
\* space, whether the pass has fixed a column, and whether it has hit a
\* break; with it, for each pass of the while loop that has begun, the count
\* of columns that had a width then
LoopState(infs, rw, rc, avg, found, stop) ==
    [infos |-> infs, remaining_width |-> rw, remaining_columns |-> rc,
     average_space |-> avg, found_smaller |-> found, stop |-> stop,
     passes |-> <<>>]

\* A pass of a while loop begins: found_smaller = false
begin_pass(st) ==
    [st EXCEPT !.found_smaller = FALSE,
               !.passes = Append(@, Cardinality(DOMAIN st.infos))]

\* A variant of fix_column that does not record the column as handled
fix_column_without_insert(st, column, content_width, cost, found) ==
    [st EXCEPT !.remaining_width = saturating_sub(@, cost),
               !.remaining_columns = @ - 1,
               !.average_space = IF st.remaining_columns - 1 = 0 THEN @
                                 ELSE saturating_sub(st.remaining_width, cost)
                                      \div (st.remaining_columns - 1),
               !.found_smaller = IF st.remaining_columns - 1 = 0 THEN @ ELSE found,
               !.stop = st.remaining_columns - 1 = 0]

\* A column is fixed to a content width; cost is what it takes off the
\* remaining width.  The loop breaks when it was the last column.
fix_column(st, column, content_width, cost, found) ==
    [st EXCEPT !.infos = insert(@, column.index,
                                ColumnDisplayInfo_new(column, content_width)),
               !.remaining_width = saturating_sub(@, cost),
               !.remaining_columns = @ - 1,
               !.average_space = IF st.remaining_columns - 1 = 0 THEN @
                                 ELSE saturating_sub(st.remaining_width, cost)
                                      \div (st.remaining_columns - 1),
               !.found_smaller = IF st.remaining_columns - 1 = 0 THEN @ ELSE found,
               !.stop = st.remaining_columns - 1 = 0]

\* Step 2-4: one pass of the for loop over the columns
RECURSIVE find_columns_for(_, _, _, _, _)
find_columns_for(t, st, i, table_width, visible_columns) ==
    IF i > Len(t.columns) \/ st.stop THEN st
    ELSE IF i \in DOMAIN st.infos
    THEN find_columns_for(t, st, i + 1, table_width, visible_columns)
    ELSE
      LET column == t.columns[i]
          max_width == get_max_constraint(t, column.constraint,
                                          SomeWidth(table_width), visible_columns)
          space_after_padding == st.average_space + get_padding_width(column)
          next ==
            IF /\ max_width.some
               /\ max_width.v <= space_after_padding
               /\ get_max_width(column) >= max_width.v
            THEN LET w == absolute_width_with_padding(column, max_width.v)
                 IN fix_column(st, column, w, w, TRUE)
            ELSE IF column.max_content_width < st.average_space
            THEN fix_column(st, column, column.max_content_width,
                            column.max_content_width, TRUE)
            ELSE st
      IN find_columns_for(t, next, i + 1, table_width, visible_columns)

\* Step 2-4: the while loop; st is the state when a pass begins, after
\* found_smaller = false
RECURSIVE find_columns_while(_, _, _, _)
find_columns_pass(t, st, table_width, visible_columns) ==
    IF st.remaining_columns = 0 THEN st
    ELSE IF st.remaining_width \div st.remaining_columns = 0 THEN st
    ELSE find_columns_while(t,
             find_columns_for(t,
                 [st EXCEPT !.average_space =
                                st.remaining_width \div st.remaining_columns,
                            !.stop = FALSE],
                 1, table_width, visible_columns),
             table_width, visible_columns)

find_columns_while(t, st, table_width, visible_columns) ==
    IF st.found_smaller
    THEN find_columns_pass(t, begin_pass(st), table_width, visible_columns)
    ELSE st

find_columns_less_than_average(t, infs, table_width, rw, visible_columns) ==
    find_columns_while(t,
        LoopState(infs, rw, count_remaining_columns(visible_columns, infs),
                  0, TRUE, FALSE),
        table_width, visible_columns)

\* Step 5: the single pass over the columns
RECURSIVE enforce_lower_boundary_for(_, _, _, _, _)
enforce_lower_boundary_for(t, st, i, table_width, visible_columns) ==
    IF i > Len(t.columns) \/ st.stop THEN st
    ELSE IF i \in DOMAIN st.infos
    THEN enforce_lower_boundary_for(t, st, i + 1, table_width, visible_columns)
    ELSE
      LET column == t.columns[i]
          min_width == get_min_constraint(t, column.constraint,
                                          SomeWidth(table_width), visible_columns)
          next ==
            IF ~min_width.some \/ st.average_space >= min_width.v THEN st
            ELSE LET w == absolute_width_with_padding(column, min_width.v)
                 IN fix_column(st, column, w, w, FALSE)
      IN enforce_lower_boundary_for(t, next, i + 1, table_width, visible_columns)

enforce_lower_boundary_constraints(t, infs, table_width, rw, rc, visible_columns) ==
    enforce_lower_boundary_for(t,
        LoopState(infs, rw, rc, rw \div rc, FALSE, FALSE),
        1, table_width, visible_columns)

\* Table::column_cells_iter: per data row the cell at the column's index,
\* <<cell>> for Some(cell) and <<>> for None
column_cells_iter(t, index) ==
    [r \in 1..Len(t.rows) |->
        IF index <= Len(t.rows[r].cells) THEN <<t.rows[r].cells[index]>> ELSE <<>>]

\* The lines of one cell after a split simulated at the average space
lines_after_split(average_space, column, t, cell) ==
    LET delimiter == get_delimiter(t, column, cell)
        info == ColumnDisplayInfo_new(column, average_space)
        one(line) == IF measure_text_width(line) > average_space
                     THEN split_line(line, info, delimiter)
                     ELSE <<line>>
        RECURSIVE all(_)
        all(ls) == IF ls = <<>> THEN <<>> ELSE one(Head(ls)) \o all(Tail(ls))
    IN all(cell.content)

get_longest_line_after_split(average_space, column, t) ==
    LET cells == column_cells_iter(t, column.index)
        RECURSIVE column_lines(_)
        column_lines(r) ==
            IF r > Len(cells) THEN <<>>
            ELSE (IF cells[r] = <<>> THEN <<>>
                  ELSE lines_after_split(average_space, column, t, cells[r][1]))
                 \o column_lines(r + 1)
        lines == column_lines(1)
    IN SeqMax([l \in 1..Len(lines) |-> measure_text_width(lines[l])])

\* Step 6, the body of the for loop: a column with at least three columns
\* of space left behind its longest line after the split is frozen
freeze_column(st, column, longest_line) ==
    IF saturating_sub(st.average_space, longest_line) >= 3
    THEN fix_column(st, column, longest_line, longest_line, TRUE)
    ELSE st

\* Step 6: one pass of the for loop over the columns
RECURSIVE optimize_for(_, _, _)
optimize_for(t, st, i) ==
    IF i > Len(t.columns) \/ st.stop THEN st
    ELSE IF i \in DOMAIN st.infos THEN optimize_for(t, st, i + 1)
    ELSE optimize_for(t,
             freeze_column(st, t.columns[i],
                 get_longest_line_after_split(st.average_space, t.columns[i], t)),
             i + 1)

\* Step 6: the while loop
RECURSIVE optimize_while(_, _)
optimize_while(t, st) ==
    IF ~st.found_smaller THEN st
    ELSE optimize_while(t, optimize_for(t, begin_pass(st), 1))

optimize_space_after_split(t, infs, rw, rc) ==
    optimize_while(t, LoopState(infs, rw, rc, rw \div rc, TRUE, FALSE))

\* The share of the n-th column among count columns: the excess of the
\* integer division goes to the leftmost columns
share(space, count, n) ==
    LET average_space == space \div count
        excess == space - average_space * count
    IN IF n <= excess THEN average_space + 1 ELSE average_space

\* Step 7, first branch: every visible column grows
use_full_width(infs, rw) ==
    LET visible == {k \in DOMAIN infs : ~infs[k].is_hidden}
        rank(k) == Cardinality({j \in visible : j <= k})
    IN IF visible = {} THEN infs
       ELSE [k \in DOMAIN infs |->
                IF infs[k].is_hidden THEN infs[k]
                ELSE [infs[k] EXCEPT !.content_width =
                        @ + share(rw, Cardinality(visible), rank(k))]]

\* Step 7, second branch: the columns without an info share the rest
distribute_remaining_space(columns, infs, rw, rc) ==
    LET open == {i \in 1..Len(columns) : i \notin DOMAIN infs}
        rank(i) == Cardinality({j \in open : j <= i})
    IN [k \in DOMAIN infs \cup open |->
            IF k \in DOMAIN infs THEN infs[k]
            ELSE ColumnDisplayInfo_new(columns[k], share(rw, rc, rank(k)))]

\* Step 7 of dynamic::arrange with its early exit
final_distribution(t, infs, rw, rc) ==
    IF rc = 0
    THEN IF rw > 0 /\ t.arrangement = "DynamicFullWidth"
         THEN use_full_width(infs, rw)
         ELSE infs
    ELSE distribute_remaining_space(t.columns, infs, Max(rw, rc), rc)

\* dynamic::arrange as a whole
dynamic_arrange(t, infs, table_width) ==
    LET visible_columns == count_visible_columns(t.columns)
        s1 == available_content_width(t, infs, visible_columns, table_width)
        s2 == find_columns_less_than_average(t, infs, table_width, s1,
                                             visible_columns)
        s5 == IF s2.remaining_columns > 0
              THEN enforce_lower_boundary_constraints(t, s2.infos, table_width,
                       s2.remaining_width, s2.remaining_columns, visible_columns)
              ELSE s2
        s6 == IF s5.remaining_columns > 0
              THEN optimize_space_after_split(t, s5.infos, s5.remaining_width,
                                              s5.remaining_columns)
              ELSE s5
    IN final_distribution(t, s6.infos, s6.remaining_width, s6.remaining_columns)

\* arrange_content: the infos of all columns in the order of the columns
arrange_content(t) ==
    LET infs == evaluate_all(t, 1, <<>>)
    IN IF ~t.width.some \/ t.arrangement = "Disabled"
       THEN disabled_arrange(t, infs, count_visible_columns(t.columns))
       ELSE dynamic_arrange(t, infs, t.width.v)

---------------------------------------------------------------------------
(* utils/spanning.rs: the active rowspans, one entry per (start_row, start_col) *)

\* Option<T>: <<>> is None and <<x>> is Some(x)
Some(x) == <<x>>
IsSome(o) == o # <<>>

\* HashMap::new: the map is empty, and a map iterates over its entries in
\* an order the library does not fix; hash_order is the place of the
\* entries of each start row in that order
SpanTracker_new(hash_order) == [hash_order |-> hash_order, active_spans |-> {}]

\* The tracker of a call that has no rows
NoTracker == [hash_order |-> <<>>, active_spans |-> {}]

\* The first of some entries of the map in the order of its iteration
first_entry(tracker, found) ==
    CHOOSE e \in found :
        \A f \in found :
            tracker.hash_order[e.start_row] <= tracker.hash_order[f.start_row]

\* The entries from any row that cover the column
spans_over_any_row(tracker, row_index, col_index) ==
    {e \in tracker.active_spans : /\ e.start_col <= col_index
                                  /\ col_index < e.start_col + e.colspan}

\* The entries from an earlier row that cover the column
spans_over(tracker, row_index, col_index) ==
    {e \in tracker.active_spans : /\ e.start_row < row_index
                     /\ e.start_col <= col_index
                     /\ col_index < e.start_col + e.colspan}

\* Some(<<remaining_rows, colspan>>) of the rowspan from above that holds the slot
is_occupied(tracker, row_index, col_index) ==
    LET found == spans_over(tracker, row_index, col_index)
    IN IF found = {} THEN <<>>
       ELSE LET e == first_entry(tracker, found)
            IN Some(<<e.remaining_rows, e.colspan>>)

is_col_occupied_by_rowspan(tracker, row_index, col_index) ==
    IsSome(is_occupied(tracker, row_index, col_index))

\* HashMap::insert under the key (row_index, col_index), only for rowspan > 1
register_rowspan(tracker, row_index, col_index, rowspan, colspan, formatted_content) ==
    IF rowspan > 1
    THEN [tracker EXCEPT !.active_spans =
            {e \in @ : ~(e.start_row = row_index /\ e.start_col = col_index)}
            \cup {[start_row |-> row_index, start_col |-> col_index,
                   remaining_rows |-> rowspan - 1, colspan |-> colspan,
                   formatted_content |-> formatted_content]}]
    ELSE tracker

get_rowspan_content(tracker, row_index, col_index) ==
    LET found == spans_over(tracker, row_index, col_index)
    IN IF found = {} THEN <<>>
       ELSE first_entry(tracker, found).formatted_content

\* The entries from earlier rows count down first, then the expired ones go
advance_row_decrement_first(tracker, current_row) ==
    [tracker EXCEPT !.active_spans =
        {f \in {IF e.start_row < current_row /\ e.remaining_rows > 0
                 THEN [e EXCEPT !.remaining_rows = @ - 1]
                 ELSE e : e \in @} : f.remaining_rows > 0}]

\* The expired entries go first, then the entries from earlier rows count down
advance_row(tracker, current_row) ==
    [tracker EXCEPT !.active_spans =
        {IF e.start_row < current_row /\ e.remaining_rows > 0
         THEN [e EXCEPT !.remaining_rows = @ - 1]
         ELSE e : e \in {f \in @ : f.remaining_rows > 0}}]

\* Some(<<start_row, start_col, colspan>>) of the rowspan from above
get_rowspan_start(tracker, row_index, col_index) ==
    LET found == spans_over(tracker, row_index, col_index)
    IN IF found = {} THEN <<>>
       ELSE LET e == first_entry(tracker, found)
            IN Some(<<e.start_row, e.start_col, e.colspan>>)

\* The same for the rowspans that go on below the row, the row's own included
get_rowspan_start_at_row(tracker, row_index, col_index) ==
    LET found == {e \in tracker.active_spans : /\ e.start_row <= row_index
                                  /\ e.remaining_rows > 0
                                  /\ e.start_col <= col_index
                                  /\ col_index < e.start_col + e.colspan}
    IN IF found = {} THEN <<>>
       ELSE LET e == first_entry(tracker, found)
            IN Some(<<e.start_row, e.start_col, e.colspan>>)

---------------------------------------------------------------------------
(* utils/formatting/content_format.rs *)

delimiter(cell, info, t) ==
    IF cell.delimiter # None THEN cell.delimiter
    ELSE IF info.delimiter # None THEN info.delimiter
    ELSE IF t.delimiter # None THEN t.delimiter
    ELSE " "

pad_line(line, info) ==
    repeat(" ", info.padding[1]) \o line \o repeat(" ", info.padding[2])

align_line(t, info, cell, line) ==
    LET remaining == saturating_sub(info.content_width, measure_text_width(line))
        alignment == IF cell.alignment # None THEN cell.alignment
                     ELSE IF info.cell_alignment # None THEN info.cell_alignment
                     ELSE "Left"
        aligned ==
            CASE alignment = "Left" -> line \o repeat(" ", remaining)
              [] alignment = "Right" -> repeat(" ", remaining) \o line
              [] OTHER -> repeat(" ", (remaining + 1) \div 2) \o line
                          \o repeat(" ", remaining \div 2)
    IN pad_line(aligned, info)

\* The infos of the visible columns among count columns from column start on
visible_infos(display_infos, start, count) ==
    SelectSeq([i \in 1..Max(0, Min(count, Len(display_infos) - start + 1)) |->
                    display_infos[start + i - 1]],
              LAMBDA info : ~info.is_hidden)

\* The sum of the full widths of some infos
width_sum(some_infos) ==
    SeqSum([i \in 1..Len(some_infos) |-> info_width(some_infos[i])])

\* The lines of a cell, split where they are wider than the content width
RECURSIVE cell_lines_of(_, _, _)
cell_lines_of(content, spanned_info, cell_delimiter) ==
    IF content = <<>> THEN <<>>
    ELSE (IF measure_text_width(Head(content)) > spanned_info.content_width
          THEN split_line(Head(content), spanned_info, cell_delimiter)
          ELSE <<Head(content)>>)
         \o cell_lines_of(Tail(content), spanned_info, cell_delimiter)

\* format_row, first loop: the slots from col_index on that a rowspan from
\* above holds are marked with one empty line
RECURSIVE skip_occupied(_, _, _, _)
skip_occupied(st, row_index, tracker, n) ==
    IF st.col_index <= n /\ is_col_occupied_by_rowspan(tracker, row_index, st.col_index)
    THEN skip_occupied([st EXCEPT !.temp_row_content[st.col_index] = Some(<<<<>>>>),
                                  !.col_index = @ + 1],
                       row_index, tracker, n)
    ELSE st

\* format_row, the loop over the graphemes of the last kept line from
\* grapheme i on: where to truncate (the count of graphemes kept) and
\* whether the whole line fits in front of the indicator
RECURSIVE truncate_scan(_, _, _, _)
truncate_scan(last_line, i, accumulated_width, max_width) ==
    IF i > Len(last_line)
    THEN [truncate_at |-> Max(0, Len(last_line) - 1),
          full_string_fits |-> Len(last_line) > 0]
    ELSE IF accumulated_width + CharWidth(last_line[i]) > max_width
    THEN [truncate_at |-> i - 1, full_string_fits |-> FALSE]
    ELSE truncate_scan(last_line, i + 1,
                       accumulated_width + CharWidth(last_line[i]), max_width)

\* format_row: the last kept line, truncated unless it fits, and the
\* truncation indicator behind it
truncate_last_line(last_line, scan, indicator) ==
    (IF scan.full_string_fits THEN last_line
     ELSE SubSeq(last_line, 1, scan.truncate_at)) \o indicator

\* format_row: the lines of a cell under the max_height of the row; the
\* access to the line lines - 1 fails for a height of 0
cap_lines(cell_lines, row_max_height, max_width, indicator) ==
    IF IsSome(row_max_height) /\ Len(cell_lines) > row_max_height[1]
    THEN IF row_max_height[1] - 1 < 0
         THEN [panicked |-> TRUE, lines |-> <<>>]
         ELSE [panicked |-> FALSE,
               lines |->
                 [l \in 1..row_max_height[1] |->
                    IF l < row_max_height[1] THEN cell_lines[l]
                    ELSE truncate_last_line(
                            cell_lines[l],
                            truncate_scan(cell_lines[l], 1,
                                          measure_text_width(indicator), max_width),
                            indicator)]]
    ELSE [panicked |-> FALSE, lines |-> cell_lines]

\* format_row, first loop: the lines of a cell are aligned and stored at its
\* column, and its rowspan is registered
store_cell(st, cell, spanned_info, aligned_cell_lines, t, row_index) ==
    [temp_row_content |->
        [st.temp_row_content EXCEPT ![st.col_index] = Some(aligned_cell_lines)],
     colspan_map |->
        [c \in 1..Len(st.colspan_map) |->
            IF c = st.col_index THEN Some(cell.colspan)
            ELSE IF st.col_index < c /\ c < st.col_index + cell.colspan THEN Some(0)
            ELSE st.colspan_map[c]],
     col_index |-> st.col_index + cell.colspan,
     tracker |-> register_rowspan(st.tracker, row_index, st.col_index,
                                  cell.rowspan, cell.colspan,
                                  Some(aligned_cell_lines)),
     panicked |-> FALSE]

\* format_row, first loop: the lines of a cell are capped, and the row
\* fails if that fails
store_lines(st, cell, spanned_info, capped, t, row_index) ==
    IF capped.panicked THEN [st EXCEPT !.panicked = TRUE]
    ELSE store_cell(st, cell, spanned_info,
                    [l \in 1..Len(capped.lines) |->
                        align_line(t, spanned_info, cell, capped.lines[l])],
                    t, row_index)

\* format_row, first loop: one cell is formatted and stored at its column
place_cell(st, cell, display_infos, t, row_index, row_max_height) ==
    LET n == Len(display_infos)
        col_index == st.col_index
        colspan == cell.colspan
        spanned_infos == visible_infos(display_infos, col_index, colspan)
    IN
    IF spanned_infos = <<>> THEN [st EXCEPT !.col_index = @ + colspan]
    ELSE
      LET visible_colspan_count == Len(spanned_infos)
          borders_between == saturating_sub(visible_colspan_count, 1) * 3
          combined_content_width ==
              SeqSum([i \in 1..visible_colspan_count |->
                          spanned_infos[i].content_width]) + borders_between
          spanned_info ==
              [padding |-> <<spanned_infos[1].padding[1],
                             spanned_infos[visible_colspan_count].padding[2]>>,
               delimiter |-> spanned_infos[1].delimiter,
               content_width |-> combined_content_width,
               cell_alignment |-> IF cell.alignment # None THEN cell.alignment
                                  ELSE spanned_infos[1].cell_alignment,
               is_hidden |-> FALSE]
      IN store_lines(st, cell, spanned_info,
                     cap_lines(cell_lines_of(cell.content, spanned_info,
                                             delimiter(cell, spanned_info, t)),
                               row_max_height, combined_content_width,
                               t.truncation_indicator),
                     t, row_index)

\* format_row, first loop over the cells of the row
RECURSIVE place_cells(_, _, _, _, _, _)
place_cells(st, cells, display_infos, t, row_index, row_max_height) ==
    IF cells = <<>> \/ st.panicked THEN st
    ELSE LET skipped == skip_occupied(st, row_index, st.tracker, Len(display_infos))
         IN IF skipped.col_index > Len(display_infos) THEN skipped
            ELSE place_cells(place_cell(skipped, Head(cells), display_infos, t,
                                        row_index, row_max_height),
                             Tail(cells), display_infos, t, row_index,
                             row_max_height)

\* A variant of fill_remaining that leaves the padding out of the blank line
fill_remaining_without_padding(st, display_infos, row_index) ==
    [st EXCEPT !.temp_row_content =
        [i \in 1..Len(display_infos) |->
            IF /\ i >= st.col_index
               /\ ~IsSome(st.temp_row_content[i])
               /\ ~is_col_occupied_by_rowspan(st.tracker, row_index, i)
               /\ ~display_infos[i].is_hidden
            THEN Some(<<repeat(" ", display_infos[i].content_width)>>)
            ELSE st.temp_row_content[i]]]

\* format_row, second loop: the free slots behind the last cell get a blank line
fill_remaining(st, display_infos, row_index) ==
    [st EXCEPT !.temp_row_content =
        [i \in 1..Len(display_infos) |->
            IF /\ i >= st.col_index
               /\ ~IsSome(st.temp_row_content[i])
               /\ ~is_col_occupied_by_rowspan(st.tracker, row_index, i)
               /\ ~display_infos[i].is_hidden
            THEN Some(<<repeat(" ", info_width(display_infos[i]))>>)
            ELSE st.temp_row_content[i]]]

\* A blank as wide as the columns of a rowspan from above and the count of
\* its columns say
rowspan_blank(display_infos, start_col, colspan) ==
    repeat(" ", width_sum(visible_infos(display_infos, start_col, colspan))
                + (colspan - 1))

\* format_row, third loop: the parts of one line from column current_col on
RECURSIVE line_parts(_, _, _, _, _, _)
line_parts(st, display_infos, row_index, line_index, current_col, line) ==
    LET n == Len(display_infos) IN
    IF current_col > n THEN line
    ELSE IF display_infos[current_col].is_hidden
    THEN line_parts(st, display_infos, row_index, line_index, current_col + 1, line)
    ELSE
      LET span == get_rowspan_start(st.tracker, row_index, current_col) IN
      IF IsSome(span)
      THEN LET start_row == span[1][1]
               start_col == span[1][2]
               colspan == span[1][3]
               cached_content == get_rowspan_content(st.tracker, row_index, start_col)
               part == IF start_row = row_index
                       THEN IF IsSome(cached_content)
                            THEN IF line_index <= Len(cached_content[1])
                                 THEN cached_content[1][line_index]
                                 ELSE rowspan_blank(display_infos, start_col, colspan)
                            ELSE <<>>
                       ELSE rowspan_blank(display_infos, start_col, colspan)
           IN line_parts(st, display_infos, row_index, line_index,
                         current_col + colspan, Append(line, part))
      ELSE IF IsSome(st.temp_row_content[current_col])
      THEN LET cell_lines == st.temp_row_content[current_col][1]
               colspan == IF IsSome(st.colspan_map[current_col])
                          THEN st.colspan_map[current_col][1] ELSE 1
           IN IF colspan = 1
              THEN line_parts(st, display_infos, row_index, line_index, current_col + 1,
                       Append(line,
                           IF line_index <= Len(cell_lines) THEN cell_lines[line_index]
                           ELSE repeat(" ", info_width(display_infos[current_col]))))
              ELSE LET visible_cols == visible_infos(display_infos, current_col, colspan)
                       content ==
                           IF line_index <= Len(cell_lines) THEN cell_lines[line_index]
                           ELSE repeat(" ", width_sum(visible_cols)
                                            + saturating_sub(Len(visible_cols), 1))
                       last == Min(current_col + colspan - 1, n)
                       skipped == {c \in (current_col + 1)..last :
                                       ~display_infos[c].is_hidden}
                   IN line_parts(st, display_infos, row_index, line_index, last + 1,
                                 Append(line, content)
                                 \o [k \in 1..Cardinality(skipped) |-> <<>>])
      ELSE line_parts(st, display_infos, row_index, line_index, current_col + 1,
                      Append(line, repeat(" ", info_width(display_infos[current_col]))))

\* format_row, third loop over the lines of the row: <<row_content,
\* span_tracker, panicked>>, the lines of the row, each a sequence of parts,
\* the tracker with the rowspans of the row, and whether the row failed
build_row_content(st, display_infos, row_index) ==
    LET max_lines == SeqMax([i \in 1..Len(display_infos) |->
                                IF IsSome(st.temp_row_content[i])
                                THEN Len(st.temp_row_content[i][1]) ELSE 0])
    IN <<[line_index \in 1..max_lines |->
            line_parts(st, display_infos, row_index, line_index, 1, <<>>)],
         st.tracker, st.panicked>>

\* <<row_content, span_tracker, panicked>> of one row
format_row(row, display_infos, t, row_index, span_tracker) ==
    LET n == Len(display_infos)
        st0 == [temp_row_content |-> [i \in 1..n |-> <<>>],
                colspan_map |-> [i \in 1..n |-> <<>>],
                col_index |-> 1,
                tracker |-> span_tracker,
                panicked |-> FALSE]
    IN build_row_content(
           fill_remaining(place_cells(st0, row.cells, display_infos, t, row_index,
                                      row.max_height),
                          display_infos, row_index),
           display_infos, row_index)

\* format_content, the end of a pass of its loops: the row is pushed to
\* the content and the tracker advances to the next row
push_row(content, formatted, next_row_index) ==
    <<Append(content, formatted[1]), advance_row(formatted[2], next_row_index),
      formatted[3]>>

\* format_content, the loop over the data rows from row r on; acc is
\* <<table_content, span_tracker, panicked>>, and a row that failed ends it
RECURSIVE format_rows(_, _, _, _)
format_rows(t, display_info, r, acc) ==
    IF r > Len(t.rows) \/ acc[3]
    THEN [table_content |-> IF acc[3] THEN <<>> ELSE acc[1], panicked |-> acc[3]]
    ELSE LET actual_row_index == IF IsSome(t.header) THEN r ELSE r - 1
         IN format_rows(t, display_info, r + 1,
                push_row(acc[1],
                         format_row(t.rows[r], display_info, t,
                                    actual_row_index, acc[2]),
                         actual_row_index + 1))

\* hash_order is the order in which the map of the tracker iterates; the
\* result is the content of the table, or panicked
format_content(t, display_info, hash_order) ==
    format_rows(t, display_info, 1,
        IF IsSome(t.header)
        THEN push_row(<<>>, format_row(t.header[1], display_info, t, 0,
                                       SpanTracker_new(hash_order)), 1)
        ELSE <<<<>>, SpanTracker_new(hash_order), FALSE>>)

---------------------------------------------------------------------------
(* utils/formatting/borders.rs: the lines of the table *)

\* A line of the output with the kind of line it is and the row it belongs to
Line(kind, row, text) == [kind |-> kind, row |-> row, text |-> text]

\* The top and the bottom border: every visible column on its own
RECURSIVE border_columns(_, _, _, _, _)
border_columns(display_info, i, first, border, intersection) ==
    IF i > Len(display_info) THEN <<>>
    ELSE IF display_info[i].is_hidden
    THEN border_columns(display_info, i + 1, first, border, intersection)
    ELSE (IF first THEN <<>> ELSE <<intersection>>)
         \o repeat(border, info_width(display_info[i]))
         \o border_columns(display_info, i + 1, FALSE, border, intersection)

draw_top_border(t, display_info) ==
    (IF should_draw_left_border(t) THEN <<style_or_default(t, "TopLeftCorner")>> ELSE <<>>)
    \o border_columns(display_info, 1, TRUE, style_or_default(t, "TopBorder"),
                      style_or_default(t, "TopBorderIntersections"))
    \o (IF should_draw_right_border(t)
        THEN <<style_or_default(t, "TopRightCorner")>> ELSE <<>>)

draw_bottom_border(t, display_info) ==
    (IF should_draw_left_border(t)
     THEN <<style_or_default(t, "BottomLeftCorner")>> ELSE <<>>)
    \o border_columns(display_info, 1, TRUE, style_or_default(t, "BottomBorder"),
                      style_or_default(t, "BottomBorderIntersections"))
    \o (IF should_draw_right_border(t)
        THEN <<style_or_default(t, "BottomRightCorner")>> ELSE <<>>)

\* The parts of a line with the vertical lines between them; no vertical
\* line in front of an empty part
RECURSIVE embed_parts(_, _)
embed_parts(parts, t) ==
    IF parts = <<>> THEN <<>>
    ELSE Head(parts)
         \o (IF Len(parts) > 1
             THEN IF parts[2] = <<>> THEN <<>>
                  ELSE IF should_draw_vertical_lines(t)
                       THEN <<style_or_default(t, "VerticalLines")>> ELSE <<>>
             ELSE IF should_draw_right_border(t)
                  THEN <<style_or_default(t, "RightBorder")>> ELSE <<>>)
         \o embed_parts(Tail(parts), t)

embed_line(parts, t) ==
    (IF should_draw_left_border(t) THEN <<style_or_default(t, "LeftBorder")>> ELSE <<>>)
    \o embed_parts(parts, t)

\* The count of empty parts that follow the part at index lookahead - 1
RECURSIVE empty_parts_from(_, _)
empty_parts_from(row_line, lookahead) ==
    IF lookahead <= Len(row_line) /\ row_line[lookahead] = <<>>
    THEN 1 + empty_parts_from(row_line, lookahead + 1)
    ELSE 0

\* The first count visible columns from column col on: <<the sum of their
\* widths, the column behind the last of them>>
RECURSIVE visible_run(_, _, _, _)
visible_run(display_info, col, count, sum) ==
    IF count = 0 \/ col > Len(display_info) THEN <<sum, col>>
    ELSE IF display_info[col].is_hidden
         THEN visible_run(display_info, col + 1, count, sum)
         ELSE visible_run(display_info, col + 1, count - 1,
                          sum + info_width(display_info[col]))

\* draw_horizontal_lines: the loop over the columns
RECURSIVE horizontal_columns(_, _, _, _, _, _, _, _, _)
horizontal_columns(display_info, row_index, tracker, row_line, horizontal_lines, middle_intersection, col_index, visible_col_index, first) ==
    IF col_index > Len(display_info) THEN <<>>
    ELSE IF display_info[col_index].is_hidden
    THEN horizontal_columns(display_info, row_index, tracker, row_line,
             horizontal_lines, middle_intersection, col_index + 1,
             visible_col_index, first)
    ELSE
      LET span == get_rowspan_start_at_row(tracker, row_index, col_index)
          info == display_info[col_index]
      IN
      IF IsSome(span)
      THEN \* the columns of a rowspan that goes on below the row stay blank
           LET start_col == span[1][2]
               rowspan_colspan == span[1][3]
               covered == visible_infos(display_info, start_col, rowspan_colspan)
               rowspan_width == width_sum(covered) + saturating_sub(Len(covered), 1)
           IN repeat(" ", rowspan_width)
              \o horizontal_columns(display_info, row_index, tracker, row_line,
                     horizontal_lines, middle_intersection,
                     start_col + rowspan_colspan,
                     visible_col_index + Len(covered), FALSE)
      ELSE IF visible_col_index <= Len(row_line)
      THEN IF row_line[visible_col_index] = <<>>
           THEN \* the continuation of a colspan: the line goes on
                repeat(horizontal_lines, info_width(info))
                \o horizontal_columns(display_info, row_index, tracker, row_line,
                       horizontal_lines, middle_intersection, col_index + 1,
                       visible_col_index + 1, first)
           ELSE \* a cell and the empty parts of its colspan
                LET colspan_visible_count ==
                        1 + empty_parts_from(row_line, visible_col_index + 1)
                    run == visible_run(display_info, col_index,
                                       colspan_visible_count, 0)
                    colspan_width == run[1] + colspan_visible_count - 1
                IN (IF first THEN <<>> ELSE <<middle_intersection>>)
                   \o repeat(horizontal_lines, colspan_width)
                   \o horizontal_columns(display_info, row_index, tracker, row_line,
                          horizontal_lines, middle_intersection, run[2],
                          visible_col_index + colspan_visible_count, FALSE)
      ELSE \* more columns than parts
           (IF first THEN <<>> ELSE <<middle_intersection>>)
           \o repeat(horizontal_lines, info_width(info))
           \o horizontal_columns(display_info, row_index, tracker, row_line,
                  horizontal_lines, middle_intersection, col_index + 1,
                  visible_col_index + 1, FALSE)

draw_horizontal_lines(t, display_info, header, row_index, tracker, row_line) ==
    LET left_intersection ==
            style_or_default(t, IF header THEN "LeftHeaderIntersection"
                                ELSE "LeftBorderIntersections")
        horizontal_lines ==
            style_or_default(t, IF header THEN "HeaderLines" ELSE "HorizontalLines")
        middle_intersection ==
            style_or_default(t, IF header THEN "MiddleHeaderIntersections"
                                ELSE "MiddleIntersections")
        right_intersection ==
            style_or_default(t, IF header THEN "RightHeaderIntersection"
                                ELSE "RightBorderIntersections")
    IN (IF should_draw_left_border(t) THEN <<left_intersection>> ELSE <<>>)
       \o horizontal_columns(display_info, row_index, tracker, row_line,
              horizontal_lines, middle_intersection, 1, 1, TRUE)
       \o (IF should_draw_right_border(t) THEN <<right_intersection>> ELSE <<>>)

\* draw_rows: the rowspans of the header, cell after cell
RECURSIVE register_header_cells(_, _, _)
register_header_cells(tracker, cells, col_index) ==
    IF cells = <<>> THEN tracker
    ELSE register_header_cells(
             register_rowspan(tracker, 0, col_index, Head(cells).rowspan,
                              Head(cells).colspan, <<>>),
             Tail(cells), col_index + Head(cells).colspan)

\* draw_rows: the column behind the slots a rowspan from above holds
RECURSIVE next_free_column(_, _, _, _)
next_free_column(tracker, row, col_index, n) ==
    IF col_index <= n /\ is_col_occupied_by_rowspan(tracker, row, col_index)
    THEN next_free_column(tracker, row, col_index + 1, n)
    ELSE col_index

\* draw_rows: the rowspans of a data row, cell after cell
RECURSIVE register_row_cells(_, _, _, _, _)
register_row_cells(tracker, cells, row, col_index, n) ==
    IF cells = <<>> THEN tracker
    ELSE LET col == next_free_column(tracker, row, col_index, n)
         IN IF col > n THEN tracker
            ELSE register_row_cells(
                     register_rowspan(tracker, row, col, Head(cells).rowspan,
                                      Head(cells).colspan, <<>>),
                     Tail(cells), row, col + Head(cells).colspan, n)

\* The first line of a row, no parts if the row has no line
first_line(row) == IF row = <<>> THEN <<>> ELSE row[1]

\* draw_rows: the loop over the formatted rows from row r on
RECURSIVE draw_rows(_, _, _, _, _, _, _)
draw_rows(lines, rows, t, display_info, span_tracker, header_rows, r) ==
    IF r > Len(rows) THEN lines
    ELSE
      LET row == rows[r]
          row_index == r - 1
          actual_row_index == IF row_index < header_rows THEN row_index
                              ELSE row_index - header_rows
          kind == IF row_index < header_rows THEN "header" ELSE "content"
          embedded == lines \o [l \in 1..Len(row) |->
                                   Line(kind, row_index, embed_line(row[l], t))]
      IN
      IF row_index = 0 /\ IsSome(t.header)
      THEN LET with_line ==
                   IF should_draw_header(t)
                   THEN Append(embedded,
                            Line("header_separator", 0,
                                 draw_horizontal_lines(t, display_info, TRUE, 0,
                                     span_tracker, first_line(row))))
                   ELSE embedded
               registered == register_header_cells(span_tracker, t.header[1].cells, 1)
           IN draw_rows(with_line, rows, t, display_info,
                        advance_row(registered, 1), header_rows, r + 1)
      ELSE LET this_row == actual_row_index + header_rows
               registered ==
                   IF actual_row_index < Len(t.rows)
                   THEN register_row_cells(span_tracker,
                            t.rows[actual_row_index + 1].cells, this_row, 1,
                            Len(display_info))
                   ELSE span_tracker
               with_line ==
                   IF r < Len(rows) /\ should_draw_horizontal_lines(t)
                   THEN Append(embedded,
                            Line("separator", this_row,
                                 draw_horizontal_lines(t, display_info, FALSE,
                                     this_row, registered, first_line(row))))
                   ELSE embedded
           IN draw_rows(with_line, rows, t, display_info,
                        advance_row(registered, this_row + 1), header_rows, r + 1)

draw_borders(t, rows, display_info, hash_order) ==
    LET header_rows == IF IsSome(t.header) THEN 1 ELSE 0
        top == IF should_draw_top_border(t)
               THEN <<Line("top", 0, draw_top_border(t, display_info))>>
               ELSE <<>>
        drawn == draw_rows(top, rows, t, display_info,
                           SpanTracker_new(hash_order), header_rows, 1)
    IN IF should_draw_bottom_border(t)
       THEN Append(drawn, Line("bottom", Len(rows), draw_bottom_border(t, display_info)))
       ELSE drawn

---------------------------------------------------------------------------
(* utils/formatting/smart_padding.rs: more room between cramped columns *)

U16_MAX == 65535

\* Table::set_smart_padding_width
set_smart_padding_width(t, w) == [t EXCEPT !.smart_padding_width = w]

\* Column::set_cell_alignment
set_cell_alignment(t, i, alignment) ==
    [t EXCEPT !.columns[i].cell_alignment = alignment]

\* The state before smart_pad_content has run
NotPadded ==
    [content |-> <<>>, display_infos |-> <<>>, max_padding_widths |-> <<>>,
     remaining_width |-> 0, padding_done |-> 0, panicked |-> FALSE,
     wrapped |-> FALSE]

\* The width that the visible columns and the borders leave of the table
\* width; u16::MAX without a table width
available_width(t, display_infos) ==
    IF ~t.width.some THEN U16_MAX
    ELSE saturating_sub(
            saturating_sub(t.width.v, count_border_columns(t, Len(display_infos))),
            SeqSum([i \in 1..Len(display_infos) |-> info_width(display_infos[i])]))

\* Option<u16> read with unwrap_or(u16::MAX)
unwrap_or_max(o) == IF IsSome(o) THEN o[1] ELSE U16_MAX

\* Per visible column the width it may still grow by under its upper
\* boundary, None without one
get_column_max_padding_widths(t, all_infos, visible_columns) ==
    LET limit(i) ==
            IF get_max_constraint(t, t.columns[i].constraint, t.width,
                                  visible_columns).some
            THEN Some(saturating_sub(
                        get_max_constraint(t, t.columns[i].constraint, t.width,
                                           visible_columns).v,
                        info_width(all_infos[i])))
            ELSE <<>>
        visible == SelectSeq([i \in 1..Min(Len(t.columns), Len(all_infos)) |-> i],
                             LAMBDA i : ~all_infos[i].is_hidden)
    IN [k \in 1..Len(visible) |-> limit(visible[k])]

can_pad_column(info, position) ==
    (IF info.cell_alignment = None THEN "Left" ELSE info.cell_alignment) # position

\* The blanks a text begins with
RECURSIVE leading_whitespace(_)
leading_whitespace(text) ==
    IF text = <<>> \/ Head(text) # " " THEN 0
    ELSE 1 + leading_whitespace(Tail(text))

\* The blanks a text ends with
RECURSIVE trailing_whitespace(_)
trailing_whitespace(text) ==
    IF text = <<>> \/ text[Len(text)] # " " THEN 0
    ELSE 1 + trailing_whitespace(SubSeq(text, 1, Len(text) - 1))

count_boundary_spaces(left, right) ==
    trailing_whitespace(left) + leading_whitespace(right)

\* The paddings that the lines of the rows ask for between the column and
\* the next one, the header left out
extra_paddings(t, content, column_index) ==
    UNION {{saturating_sub(t.smart_padding_width,
                           count_boundary_spaces(content[r][l][column_index],
                                                 content[r][l][column_index + 1])) :
                l \in 1..Len(content[r])} :
            r \in {q \in 1..Len(content) : ~(q = 1 /\ IsSome(t.header))}}

\* The loop returns max_padding_width at the first line that asks for at
\* least that much, and the largest padding asked for otherwise
compare_adjacent_columns(t, content, display_infos, column_index, max_padding_width) ==
    IF ~(\/ can_pad_column(display_infos[column_index], "Right")
         \/ can_pad_column(display_infos[column_index + 1], "Left"))
    THEN 0
    ELSE IF \E extra \in extra_paddings(t, content, column_index) :
                extra >= max_padding_width
         THEN max_padding_width
         ELSE CHOOSE m \in extra_paddings(t, content, column_index) \cup {0} :
                \A n \in extra_paddings(t, content, column_index) \cup {0} : n <= m

\* The cells of a column with blanks before (Left) or behind (Right) them
pad_cells(content, column_index, padding_position, padding) ==
    [r \in 1..Len(content) |->
        [l \in 1..Len(content[r]) |->
            [c \in 1..Len(content[r][l]) |->
                IF c # column_index THEN content[r][l][c]
                ELSE IF padding_position = "Left"
                     THEN repeat(" ", padding) \o content[r][l][c]
                     ELSE content[r][l][c] \o repeat(" ", padding)]]]

\* update_column_padding: st.padding_done is the value it returns
update_column_padding(st, column_index, padding_position, padding_needed) ==
    IF ~can_pad_column(st.display_infos[column_index], padding_position)
    THEN [st EXCEPT !.padding_done = 0]
    ELSE [st EXCEPT
            !.display_infos[column_index].content_width =
                @ + Min(padding_needed,
                        unwrap_or_max(st.max_padding_widths[column_index])),
            !.max_padding_widths[column_index] =
                IF IsSome(@)
                THEN Some(saturating_sub(@[1], Min(padding_needed, @[1])))
                ELSE @,
            !.content =
                pad_cells(@, column_index, padding_position,
                          Min(padding_needed,
                              unwrap_or_max(st.max_padding_widths[column_index]))),
            !.padding_done =
                Min(padding_needed,
                    unwrap_or_max(st.max_padding_widths[column_index]))]

\* remaining_width -= padding_done on a u16: below zero the subtraction
\* panics in a build with overflow checks and wraps around in one without
subtract_padding(st, overflow_checks) ==
    IF st.padding_done <= st.remaining_width
    THEN [st EXCEPT !.remaining_width = @ - st.padding_done]
    ELSE IF overflow_checks THEN [st EXCEPT !.panicked = TRUE]
    ELSE [st EXCEPT !.remaining_width = @ + U16_MAX + 1 - st.padding_done,
                    !.wrapped = TRUE]

\* The loop over pad_order: 0 pads the left column on its right side, 1 the
\* right column on its left side
RECURSIVE pad_in_order(_, _, _, _, _)
pad_in_order(st, column_index, pad_order, padding_needed, overflow_checks) ==
    IF pad_order = <<>> \/ st.panicked THEN st
    ELSE pad_in_order(
            subtract_padding(
                update_column_padding(st, column_index + Head(pad_order),
                                      IF Head(pad_order) = 0 THEN "Right" ELSE "Left",
                                      padding_needed),
                overflow_checks),
            column_index, Tail(pad_order),
            padding_needed
                - update_column_padding(st, column_index + Head(pad_order),
                                        IF Head(pad_order) = 0 THEN "Right" ELSE "Left",
                                        padding_needed).padding_done,
            overflow_checks)

\* The left column is padded first, unless it is not left aligned and the
\* right column is right aligned
pad_order(left, right) ==
    IF /\ (IF left.cell_alignment = None THEN "Left" ELSE left.cell_alignment) # "Left"
       /\ right.cell_alignment = "Right"
    THEN <<1, 0>> ELSE <<0, 1>>

\* The loop of smart_pad_content over the pairs of adjacent visible columns
RECURSIVE pad_columns(_, _, _, _)
pad_columns(t, st, column_index, overflow_checks) ==
    IF column_index > Len(st.display_infos) - 1 \/ st.panicked
       \/ st.remaining_width = 0
    THEN st
    ELSE \* padding_needed of the pair, under max_padding_width
         IF compare_adjacent_columns(
                t, st.content, st.display_infos, column_index,
                Max(Min(st.remaining_width,
                        unwrap_or_max(st.max_padding_widths[column_index])),
                    unwrap_or_max(st.max_padding_widths[column_index + 1]))) = 0
         THEN pad_columns(t, st, column_index + 1, overflow_checks)
         ELSE pad_columns(
                t,
                pad_in_order(
                    st, column_index,
                    pad_order(st.display_infos[column_index],
                              st.display_infos[column_index + 1]),
                    compare_adjacent_columns(
                        t, st.content, st.display_infos, column_index,
                        Max(Min(st.remaining_width,
                                unwrap_or_max(st.max_padding_widths[column_index])),
                            unwrap_or_max(st.max_padding_widths[column_index + 1]))),
                    overflow_checks),
                column_index + 1, overflow_checks)

\* The infos of the visible columns
visible_display_infos(all_infos) ==
    SelectSeq(all_infos, LAMBDA info : ~info.is_hidden)

\* The state the loop of smart_pad_content begins with
padding_state(t, content, all_infos) ==
    [content |-> content,
     display_infos |-> visible_display_infos(all_infos),
     max_padding_widths |->
        IF content = <<>> \/ content[1] = <<>> THEN <<>>
        ELSE get_column_max_padding_widths(t, all_infos, Len(content[1][1])),
     remaining_width |-> available_width(t, visible_display_infos(all_infos)),
     padding_done |-> 0, panicked |-> FALSE, wrapped |-> FALSE]

smart_pad_content(t, content, all_infos, overflow_checks) ==
    IF \/ t.arrangement \notin {"Disabled", "Dynamic"}
       \/ style_or_default(t, "VerticalLines") # " "
       \/ content = <<>> \/ content[1] = <<>>
    THEN padding_state(t, content, all_infos)
    ELSE pad_columns(t, padding_state(t, content, all_infos), 1, overflow_checks)

---------------------------------------------------------------------------
(* The splitter on its own: every line, width and delimiter within bounds *)

SplitAlphabet == {"a", "W", " ", "M"}
Delimiters == {" ", "M"}

RECURSIVE SeqsUpTo(_, _)
SeqsUpTo(S, n) ==
    IF n = 0 THEN {<<>>}
    ELSE LET shorter == SeqsUpTo(S, n - 1)
         IN shorter \cup {Append(s, c) : s \in {t \in shorter : Len(t) = n - 1}, c \in S}

NoSplit == [line |-> <<>>, content_width |-> 1, delimiter |-> " "]

InitSplit ==
    /\ pc = "split"
    /\ split_in \in [line : SeqsUpTo(SplitAlphabet, MaxLineLen),
                     content_width : 1..MaxSplitWidth,
                     delimiter : Delimiters]
    /\ split_out = <<>>
    /\ split_trace = <<>>
    /\ table = NoTable
    /\ added = <<>>
    /\ infos = <<>>
    /\ remaining_width = 0
    /\ remaining_columns = 0
    /\ passes = <<>>
    /\ table_content = <<>>
    /\ padded = NotPadded
    /\ row_tracker = NoTracker
    /\ tracked_row = 0
    /\ placed_cells = {}
    /\ output = <<>>

CallSplitLine ==
    /\ pc = "split"
    /\ split_out' = split_line(split_in.line,
                               [content_width |-> split_in.content_width],
                               split_in.delimiter)
    /\ split_trace' = split_line_passes(split_in.line,
                                         [content_width |-> split_in.content_width],
                                         split_in.delimiter)
    /\ pc' = "split_done"
    /\ UNCHANGED <<split_in, buildVars, trackerVars, arrangeVars, renderVars>>

NextSplit == CallSplitLine

SpecSplit == InitSplit /\ [][NextSplit]_vars

---------------------------------------------------------------------------
(* The arrangement step by step: a table of one data row and two columns *)

Arrangements == {"Disabled", "Dynamic", "DynamicFullWidth"}

\* The contents of the first column and of the second column
Contents1 == {<<"a", "a", "a", " ", "a", "a", "a">>,
              <<"b", "b", "b", "b", "b", "b", "b", "b">>,
              <<"c", "c">>}
Contents2 == {<<"a", "a", "a", " ", "a", "a", "a">>,
              <<"b", "b", "b", "b", "b", "b", "b", "b">>}

Paddings == {<<1, 1>>, <<0, 3>>}

\* The percentages of an absolute width, some of them above 100
Percentages == {0, 50, 100, 150, 200}

\* The constraints of the first column: every kind with every bound
Constraints1 ==
    {NoConstraint, Hidden, ContentWidth}
    \cup {Absolute(Fixed(n)) : n \in 0..MaxBound}
    \cup {Absolute(Percentage(p)) : p \in Percentages}
    \cup {LowerBoundary(Fixed(n)) : n \in 0..MaxBound}
    \cup {UpperBoundary(Fixed(n)) : n \in 0..MaxBound}

Constraints2 == {NoConstraint, Hidden, LowerBoundary(Fixed(MaxBound))}

TableWidths == {NoWidth} \cup {SomeWidth(w) : w \in 0..MaxTableWidth}

\* The table the caller has built before it asks for the arrangement
BuildTable(c1, c2, p1, k1, k2, arrangement, w) ==
    LET t0 == add_row(Table_new, Row_from(<<c1, c2>>))
        t1 == set_constraint(set_padding(t0, 1, p1), 1, k1)
        t2 == set_constraint(t1, 2, k2)
    IN [t2 EXCEPT !.arrangement = arrangement, !.width = w]

InitArrange ==
    /\ pc = "evaluate"
    /\ \E c1 \in Contents1, c2 \in Contents2, p1 \in Paddings,
          k1 \in Constraints1, k2 \in Constraints2,
          arrangement \in Arrangements, w \in TableWidths :
            table = BuildTable(c1, c2, p1, k1, k2, arrangement, w)
    /\ added = table.header \o table.rows
    /\ infos = <<>>
    /\ remaining_width = 0
    /\ remaining_columns = 0
    /\ passes = <<>>
    /\ split_in = NoSplit
    /\ split_out = <<>>
    /\ split_trace = <<>>
    /\ table_content = <<>>
    /\ padded = NotPadded
    /\ row_tracker = NoTracker
    /\ tracked_row = 0
    /\ placed_cells = {}
    /\ output = <<>>

\* arrange_content: the constraints are resolved
EvaluateConstraints ==
    /\ pc = "evaluate"
    /\ infos' = evaluate_all(table, 1, <<>>)
    /\ pc' = "arrange"
    /\ UNCHANGED <<buildVars, trackerVars, remaining_width, remaining_columns, passes, splitVars,
                   renderVars>>

\* arrange_content: no table width or the Disabled arrangement
ArrangeDisabled ==
    /\ pc = "arrange"
    /\ ~table.width.some \/ table.arrangement = "Disabled"
    /\ infos' = disabled_arrange(table, infos, count_visible_columns(table.columns))
    /\ pc' = "arranged"
    /\ UNCHANGED <<buildVars, trackerVars, remaining_width, remaining_columns, passes, splitVars,
                   renderVars>>

\* dynamic::arrange, step 1
AvailableContentWidth ==
    /\ pc = "arrange"
    /\ table.width.some /\ table.arrangement # "Disabled"
    /\ remaining_width' = available_content_width(table, infos,
                              count_visible_columns(table.columns), table.width.v)
    /\ pc' = "less_than_average"
    /\ UNCHANGED <<buildVars, trackerVars, infos, remaining_columns, passes, splitVars, renderVars>>

\* dynamic::arrange, step 2-4
FindColumnsLessThanAverage ==
    /\ pc = "less_than_average"
    /\ \E st \in {find_columns_less_than_average(table, infos, table.width.v,
                     remaining_width, count_visible_columns(table.columns))} :
          /\ infos' = st.infos
          /\ remaining_width' = st.remaining_width
          /\ remaining_columns' = st.remaining_columns
          /\ passes' = st.passes
    /\ pc' = "lower_boundary"
    /\ UNCHANGED <<buildVars, trackerVars, splitVars, renderVars>>

\* dynamic::arrange, step 5
EnforceLowerBoundaryConstraints ==
    /\ pc = "lower_boundary"
    /\ IF remaining_columns > 0
       THEN \E st \in {enforce_lower_boundary_constraints(table, infos,
                          table.width.v, remaining_width, remaining_columns,
                          count_visible_columns(table.columns))} :
               /\ infos' = st.infos
               /\ remaining_width' = st.remaining_width
               /\ remaining_columns' = st.remaining_columns
               /\ UNCHANGED passes
       ELSE UNCHANGED arrangeVars
    /\ pc' = "optimize"
    /\ UNCHANGED <<buildVars, trackerVars, splitVars, renderVars>>

\* dynamic::arrange, step 6
OptimizeSpaceAfterSplit ==
    /\ pc = "optimize"
    /\ IF remaining_columns > 0
       THEN \E st \in {optimize_space_after_split(table, infos, remaining_width,
                                                  remaining_columns)} :
               /\ infos' = st.infos
               /\ remaining_width' = st.remaining_width
               /\ remaining_columns' = st.remaining_columns
               /\ passes' = st.passes
       ELSE /\ passes' = <<>>
            /\ UNCHANGED <<infos, remaining_width, remaining_columns>>
    /\ pc' = "distribute"
    /\ UNCHANGED <<buildVars, trackerVars, splitVars, renderVars>>

\* dynamic::arrange, step 7 and the early exit before it
FinalDistribution ==
    /\ pc = "distribute"
    /\ infos' = final_distribution(table, infos, remaining_width, remaining_columns)
    /\ pc' = "arranged"
    /\ UNCHANGED <<buildVars, trackerVars, remaining_width, remaining_columns, passes, splitVars,
                   renderVars>>

NextArrange ==
    \/ EvaluateConstraints
    \/ ArrangeDisabled
    \/ AvailableContentWidth
    \/ FindColumnsLessThanAverage
    \/ EnforceLowerBoundaryConstraints
    \/ OptimizeSpaceAfterSplit
    \/ FinalDistribution

SpecArrange == InitArrange /\ [][NextArrange]_vars

---------------------------------------------------------------------------
(* The rendering of a table: arrangement, formatting, borders *)

\* The rows of the table from top to bottom, the header first; row r of
\* the output is AllRows(t)[r + 1]
AllRows(t) == t.header \o t.rows

\* Where the cells of a table belong: a cell goes to the first column that
\* no rowspan from above covers, and it covers colspan columns of rowspan rows
CoveredFromAbove(placed, r, c) ==
    \E q \in placed : /\ q.row < r /\ r <= q.row + q.rowspan - 1
                      /\ q.col <= c /\ c < q.col + q.colspan

RECURSIVE FirstFree(_, _, _)
FirstFree(placed, r, c) ==
    IF CoveredFromAbove(placed, r, c) THEN FirstFree(placed, r, c + 1) ELSE c

RECURSIVE PlaceCells(_, _, _, _, _)
PlaceCells(cells, i, r, c, placed) ==
    IF i > Len(cells) THEN placed
    ELSE LET col == FirstFree(placed, r, c)
         IN PlaceCells(cells, i + 1, r, col + cells[i].colspan,
                placed \cup {[row |-> r, col |-> col, cell |-> i,
                              colspan |-> cells[i].colspan,
                              rowspan |-> cells[i].rowspan]})

RECURSIVE PlaceRows(_, _, _)
PlaceRows(rows, r, placed) ==
    IF r >= Len(rows) THEN placed
    ELSE PlaceRows(rows, r + 1, PlaceCells(rows[r + 1].cells, 1, r, 1, placed))

Placements(t) == PlaceRows(AllRows(t), 0, {})

\* The spans fit inside a table of these rows, which has as many columns as
\* its longest row has cells, and they do not overlap
SpansFit(rows) ==
    LET placed == PlaceRows(rows, 0, {})
        columns == SeqMax([r \in 1..Len(rows) |-> Len(rows[r].cells)])
    IN /\ \A q \in placed : /\ q.col + q.colspan - 1 <= columns
                            /\ q.row + q.rowspan <= Len(rows)
       /\ \A q1, q2 \in placed :
            q1 # q2 => \/ q1.col + q1.colspan <= q2.col
                       \/ q2.col + q2.colspan <= q1.col
                       \/ q1.row + q1.rowspan <= q2.row
                       \/ q2.row + q2.rowspan <= q1.row

HasSpans(t) ==
    \E q \in Placements(t) : q.colspan > 1 \/ q.rowspan > 1

Short == <<"a", "b">>
Words == <<"a", "b", "c", " ", "d", "e">>
WideText == <<"a", "W", "c">>
Empty == <<>>

\* The rows of a table without spans: one or two cells, one of them empty
\* in some rows
PlainContents == {Short, Words, WideText}
PlainRows == {Row_from(<<c>>) : c \in PlainContents}
             \cup {Row_from(<<c1, c2>>) : c1 \in PlainContents, c2 \in PlainContents}
             \cup {Row_from(<<Empty>>), Row_from(<<Empty, Short>>),
                   Row_from(<<Short, Empty>>)}
PlainHeaders == {<<>>, <<Row_from(<<Short, Short>>)>>}
PlainSecondRows == {<<>>, <<Row_from(<<Words>>)>>, <<Row_from(<<WideText, Short>>)>>}

PlainConstraints ==
    {NoConstraint, Hidden, Absolute(Fixed(1)), UpperBoundary(Fixed(5))}

\* The arrangement and the table width of a rendered table
RenderWidths == {9, 12, 14, 30}
RenderModes ==
    {<<"Disabled", NoWidth>>}
    \cup {<<m, SomeWidth(w)>> : m \in {"Dynamic", "DynamicFullWidth"}, w \in RenderWidths}

\* The table after set_header and add_row for each row
RECURSIVE add_rows(_, _)
add_rows(t, rows) ==
    IF rows = <<>> THEN t ELSE add_rows(add_row(t, Head(rows)), Tail(rows))

with_rows(header, rows) ==
    add_rows(IF IsSome(header) THEN set_header(Table_new, header[1]) ELSE Table_new,
             rows)

\* The constraints are set on the columns that exist
RECURSIVE set_constraints(_, _, _)
set_constraints(t, constraints, i) ==
    IF i > Len(t.columns) \/ i > Len(constraints) THEN t
    ELSE set_constraints(set_constraint(t, i, constraints[i]), constraints, i + 1)

PlainTable(header, row1, row2, k1, k2, mode) ==
    [set_constraints(with_rows(header, <<row1>> \o row2), <<k1, k2>>, 1)
        EXCEPT !.arrangement = mode[1], !.width = mode[2]]

\* The cells of a table with spans: <<colspan, rowspan>> of each cell
SpanKinds == {<<1, 1>>, <<2, 1>>, <<1, 2>>, <<2, 2>>}

SpanCell(kind) ==
    set_rowspan(set_colspan(Cell_new(<<IF kind[1] > 1 THEN Words ELSE Short>>),
                            kind[1]),
                kind[2])

RowShapes ==
    {shape \in SeqsUpTo(SpanKinds, SpanCols) :
        /\ shape # <<>>
        /\ SeqSum([i \in 1..Len(shape) |-> shape[i][1]]) <= SpanCols}

SpanRow(shape) ==
    [cells |-> [i \in 1..Len(shape) |-> SpanCell(shape[i])], max_height |-> <<>>]

\* The columns of a table with spans: all alike, or one of them hidden, or
\* one of them with another padding
ColumnSetups ==
    {[i \in 1..SpanCols |-> [padding |-> <<1, 1>>, hidden |-> FALSE]]}
    \cup {[i \in 1..SpanCols |-> [padding |-> <<1, 1>>, hidden |-> i = h]]
            : h \in 1..SpanCols}
    \cup {[i \in 1..SpanCols |->
                [padding |-> IF i = h THEN <<2, 0>> ELSE <<1, 1>>, hidden |-> FALSE]]
            : h \in 1..SpanCols}

RECURSIVE set_columns(_, _, _)
set_columns(t, setup, i) ==
    IF i > Len(t.columns) \/ i > Len(setup) THEN t
    ELSE set_columns(
            IF setup[i].hidden THEN set_constraint(t, i, Hidden)
            ELSE set_padding(t, i, setup[i].padding),
            setup, i + 1)

\* A table of SpanRows rows, the first of them the header if there is one
SpanRowsOf(shapes) == [r \in 1..Len(shapes) |-> SpanRow(shapes[r])]

SpanTable(shapes, has_header, setup) ==
    LET rows == SpanRowsOf(shapes)
    IN set_columns(IF has_header THEN with_rows(<<Head(rows)>>, Tail(rows))
                   ELSE with_rows(<<>>, rows),
                   setup, 1)

\* The tables without spans in some arrangements
PlainTables(modes) ==
    {PlainTable(header, row1, row2, k1, k2, mode) :
        header \in PlainHeaders, row1 \in PlainRows, row2 \in PlainSecondRows,
        k1 \in PlainConstraints, k2 \in PlainConstraints, mode \in modes}

\* The layouts of some rows whose spans fit, with a span in them
SpanLayouts(rows) ==
    {shapes \in [1..rows -> RowShapes] :
        /\ \E r \in 1..rows : \E i \in 1..Len(shapes[r]) : shapes[r][i] # <<1, 1>>
        /\ SpansFit(SpanRowsOf(shapes))}

SpanTables(rows) ==
    LET plain == {SpanTable(shapes, has_header, <<>>) :
                    shapes \in SpanLayouts(rows), has_header \in BOOLEAN}
    IN {set_columns(t, setup, 1) : t \in plain, setup \in ColumnSetups}

\* The tables with one row of a capped height: its first cell has a line to
\* wrap, a wide grapheme or two lines, and a short cell may follow
MaxHeight == 2
TwoLines == <<<<"a">>, <<"b", "c">>>>
CappedCells == {Cell_new(<<Words>>), Cell_new(<<WideText>>), Cell_new(TwoLines)}
CappedRows ==
    {add_cell(Row_from(<<>>), c) : c \in CappedCells}
    \cup {add_cell(add_cell(Row_from(<<>>), c), Cell_new(<<Short>>)) : c \in CappedCells}

CappedWidths == {9, 14}
CappedModes ==
    {<<"Disabled", NoWidth>>}
    \cup {<<m, SomeWidth(w)>> : m \in {"Dynamic", "DynamicFullWidth"}, w \in CappedWidths}

CappedTables(modes) ==
    {PlainTable(<<>>, max_height(row, lines), <<>>, k1, k2, mode) :
        row \in CappedRows, lines \in 0..MaxHeight,
        k1 \in PlainConstraints, k2 \in PlainConstraints, mode \in modes}

\* The spans stay within the columns and the rows of the table
SpansInside(rows) ==
    LET placed == PlaceRows(rows, 0, {})
        columns == SeqMax([r \in 1..Len(rows) |-> Len(rows[r].cells)])
    IN \A q \in placed : /\ q.col + q.colspan - 1 <= columns
                          /\ q.row + q.rowspan <= Len(rows)

\* The tables whose spans cross each other: the cells of the first row are
\* one column wide and one or three rows high, those of the second row one
\* column and one row or two columns and two rows
CrossingShapes(kinds) ==
    {shape \in SeqsUpTo(kinds, SpanCols) :
        /\ shape # <<>>
        /\ SeqSum([i \in 1..Len(shape) |-> shape[i][1]]) <= SpanCols}

CrossingLayouts(rows) ==
    {shapes \in [1..rows -> CrossingShapes({<<1, 1>>, <<1, 3>>, <<2, 2>>})] :
        /\ \A i \in 1..Len(shapes[1]) : shapes[1][i] \in {<<1, 1>>, <<1, 3>>}
        /\ \A r \in 2..rows : \A i \in 1..Len(shapes[r]) :
                shapes[r][i] \in (IF r = 2 THEN {<<1, 1>>, <<2, 2>>} ELSE {<<1, 1>>})
        /\ SpansInside(SpanRowsOf(shapes))
        /\ ~SpansFit(SpanRowsOf(shapes))}

CrossingTables(rows) ==
    LET plain == {SpanTable(shapes, has_header, <<>>) :
                    shapes \in CrossingLayouts(rows), has_header \in BOOLEAN}
    IN {set_columns(t, setup, 1) : t \in plain, setup \in ColumnSetups}

InitRender ==
    /\ pc = "evaluate"
    /\ \/ table \in PlainTables(RenderModes)
       \/ table \in SpanTables(SpanRows)
       \/ table \in CrossingTables(SpanRows)
       \/ table \in CappedTables(CappedModes)
    /\ added = table.header \o table.rows
    /\ infos = <<>>
    /\ remaining_width = 0
    /\ remaining_columns = 0
    /\ passes = <<>>
    /\ split_in = NoSplit
    /\ split_out = <<>>
    /\ split_trace = <<>>
    /\ table_content = <<>>
    /\ padded = NotPadded
    /\ row_tracker = NoTracker
    /\ tracked_row = 0
    /\ placed_cells = {}
    /\ output = <<>>

\* The orders in which a map of the entries of some rows can iterate: the
\* entries that one lookup meets differ in their start row
HashOrders ==
    {o \in [0..(SpanRows - 1) -> 1..SpanRows] :
        \A a, b \in 0..(SpanRows - 1) : a # b => o[a] # o[b]}

HasRowspan(t) ==
    \E r \in 1..Len(AllRows(t)) : \E i \in 1..Len(AllRows(t)[r].cells) :
        AllRows(t)[r].cells[i].rowspan > 1

\* A map that never gets an entry has one order
iteration_orders(t) ==
    IF HasRowspan(t) THEN HashOrders ELSE {[r \in 0..(SpanRows - 1) |-> r + 1]}

\* build_table: the content of the rows
FormatContent ==
    /\ pc = "arranged"
    /\ \E hash_order \in iteration_orders(table) :
        \E formatted \in {format_content(table, infos, hash_order)} :
            /\ table_content' = formatted.table_content
            /\ pc' = IF formatted.panicked THEN "panicked" ELSE "draw_borders"
    /\ UNCHANGED <<buildVars, trackerVars, arrangeVars, splitVars, padded, output>>

\* build_table: the borders around the content
DrawBorders ==
    /\ pc = "draw_borders"
    /\ \E hash_order \in iteration_orders(table) :
            output' = draw_borders(table, table_content, infos, hash_order)
    /\ pc' = "drawn"
    /\ UNCHANGED <<buildVars, trackerVars, arrangeVars, splitVars, table_content, padded>>

\* build_table: the widths of the columns by the steps of arrange_content,
\* then the content of the rows, then the borders
NextRender == NextArrange \/ FormatContent \/ DrawBorders

SpecRender == InitRender /\ [][NextRender]_vars

---------------------------------------------------------------------------
(* Claims about the rendered lines *)

Drawn == pc = "drawn"

\* All lines of the output are equally wide
UniformWidth ==
    \A i, j \in 1..Len(output) :
        measure_text_width(output[i].text) = measure_text_width(output[j].text)

\* No row of the table has a height cap
NoHeightCap(t) ==
    \A r \in 1..Len(AllRows(t)) : AllRows(t)[r].max_height = <<>>

\* C1: all lines of a rendered table without spans and without height caps
\* (top border, content lines, header separator, row separators, bottom
\* border) have the same display width, whatever the cells per row, the
\* constraints, the arrangement and the table width.
C1_UniformWidthWithoutSpans ==
    (Drawn /\ ~HasSpans(table) /\ NoHeightCap(table)) => UniformWidth

\* No cell of the table holds a grapheme that is wider than one column
NarrowContent(t) ==
    \A r \in 1..Len(AllRows(t)) : \A i \in 1..Len(AllRows(t)[r].cells) :
        \A l \in 1..Len(AllRows(t)[r].cells[i].content) :
            \A k \in 1..Len(AllRows(t)[r].cells[i].content[l]) :
                CharWidth(AllRows(t)[r].cells[i].content[l][k]) = 1

\* C1, amended: the lines of a rendered table without spans and without
\* height caps are equally wide when no cell holds a grapheme wider than one
\* column.
C1_UniformWidthNarrowContent ==
    (Drawn /\ ~HasSpans(table) /\ NoHeightCap(table) /\ NarrowContent(table))
        => UniformWidth

\* A table with a header, two columns and a row of one cell whose content is
\* wrapped, drawn with lines of one width
C1_Witness ==
    /\ Drawn /\ ~HasSpans(table) /\ NoHeightCap(table) /\ NarrowContent(table)
    /\ IsSome(table.header)
    /\ table.arrangement = "Dynamic"
    /\ \A c \in 1..Len(infos) : ~infos[c].is_hidden
    /\ \E r \in 1..Len(table.rows) :
            /\ Len(table.rows[r].cells) < Len(table.columns)
            /\ Len(table_content[r + 1]) > 1
    /\ UniformWidth

\* C2: all lines of a rendered table with colspan or rowspan cells, the spans
\* fitting and not overlapping and a rowspan starting in any column, have the
\* same display width.
C2_UniformWidthWithSpans ==
    (Drawn /\ HasSpans(table)) => UniformWidth

---------------------------------------------------------------------------
(* Claims about the cells with spans *)

\* The visible columns among the columns a placed cell covers
VisibleColumns(q) ==
    {c \in q.col..(q.col + q.colspan - 1) : c <= Len(infos) /\ ~infos[c].is_hidden}

\* The width of the visible columns a placed cell covers and of the vertical
\* lines between them
BlockWidth(q) ==
    SeqSum([c \in 1..Len(infos) |->
                IF c \in VisibleColumns(q) THEN info_width(infos[c]) ELSE 0])
    + (Cardinality(VisibleColumns(q)) - 1)

\* The placed cell that covers column c in row r, if there is one
Occupants(r, c) ==
    {q \in Placements(table) : /\ q.row <= r /\ r <= q.row + q.rowspan - 1
                               /\ q.col <= c /\ c < q.col + q.colspan}

\* The parts column c adds to a line of row r: none if it is hidden, one if
\* it is free or belongs to a cell of the row, and one for the first visible
\* column of a rowspan from above
PartsAt(r, c) ==
    IF infos[c].is_hidden THEN 0
    ELSE IF Occupants(r, c) = {} THEN 1
    ELSE LET q == CHOOSE q \in Occupants(r, c) : TRUE
         IN IF q.row = r THEN 1
            ELSE IF \A v \in VisibleColumns(q) : c <= v THEN 1 ELSE 0

\* The index, in a line of row r, of the part that starts at column c
PartIndex(r, c) ==
    1 + SeqSum([k \in 1..Len(infos) |-> IF k < c THEN PartsAt(r, k) ELSE 0])

\* The part of placed cell q in line l of row r, no part if the line is short
PartOf(q, r, l) ==
    LET line == table_content[r + 1][l]
    IN IF PartIndex(r, q.col) <= Len(line)
       THEN Some(line[PartIndex(r, q.col)]) ELSE <<>>

IsBlank(text) == \A k \in 1..Len(text) : text[k] = " "

\* C3: a cell with colspan k over k visible columns is, on each content line
\* of its row, one part as wide as the full widths of the k columns and the
\* k - 1 vertical lines between them, whatever the padding of the columns.
C3_ColspanWidth ==
    Drawn =>
        \A q \in Placements(table) :
            (q.colspan > 1 /\ Cardinality(VisibleColumns(q)) = q.colspan) =>
                \A l \in 1..Len(table_content[q.row + 1]) :
                    /\ IsSome(PartOf(q, q.row, l))
                    /\ measure_text_width(PartOf(q, q.row, l)[1]) = BlockWidth(q)

\* C4: the rows below the first row of a cell with rowspan n hold, at the
\* place of the cell, blank filler as wide as the cell is in its first row,
\* also for a cell with colspan > 1 and for a cell over hidden columns.
C4_RowspanFiller ==
    Drawn =>
        \A q \in Placements(table) :
            (q.rowspan > 1 /\ VisibleColumns(q) # {}) =>
                \A r \in (q.row + 1)..(q.row + q.rowspan - 1) :
                    \A l \in 1..Len(table_content[r + 1]) :
                        /\ IsSome(PartOf(q, r, l))
                        /\ IsSome(PartOf(q, q.row, 1))
                        /\ IsBlank(PartOf(q, r, l)[1])
                        /\ measure_text_width(PartOf(q, r, l)[1])
                             = measure_text_width(PartOf(q, q.row, 1)[1])

\* The places, in a line of the output, of the columns a placed cell covers
TextRange(q) ==
    LET before == SeqSum([c \in 1..Len(infos) |->
                             IF c < q.col /\ ~infos[c].is_hidden
                             THEN info_width(infos[c]) + 1 ELSE 0])
    IN (before + 2)..(before + 1 + BlockWidth(q))

\* Line i of the output is the separator below row r
IsSeparatorBelow(i, r) ==
    /\ output[i].kind \in {"separator", "header_separator"}
    /\ output[i].row = r

\* C5: a separator between two rows, the header separator included, is blank
\* where a rowspan cell covers both rows, and it is a normal separator there
\* below the last row of the rowspan cell.
C5_SeparatorsUnderRowspans ==
    Drawn =>
        \A q \in Placements(table) : \A i \in 1..Len(output) :
            (q.rowspan > 1 /\ VisibleColumns(q) # {}) =>
                /\ (\E r \in q.row..(q.row + q.rowspan - 2) : IsSeparatorBelow(i, r))
                    => \A k \in TextRange(q) :
                            k <= Len(output[i].text) /\ output[i].text[k] = " "
                /\ IsSeparatorBelow(i, q.row + q.rowspan - 1)
                    => \A k \in TextRange(q) :
                            k <= Len(output[i].text) /\ output[i].text[k] # " "

---------------------------------------------------------------------------
(* C6: every fragment split_line returns is at most the target width wide, *)
(* except a fragment that is one single grapheme wider than the target.    *)
FragmentOk(f, w) ==
    \/ measure_text_width(f) <= w
    \/ Len(f) = 1 /\ measure_text_width(f) > w

C6_SplitSafety ==
    pc = "split_done" =>
        \A i \in 1..Len(split_out) : FragmentOk(split_out[i], split_in.content_width)

---------------------------------------------------------------------------
(* Claims about the resolved widths *)

Arranged == pc = "arranged"

HasConstraint(i, kind) ==
    /\ table.columns[i].constraint.kind = kind
    /\ table.columns[i].constraint.width.kind = "Fixed"

Bound(i) == table.columns[i].constraint.width.v

\* C7 as stated: a column with Absolute(Fixed(n)) is exactly n wide, padding
\* included, in every arrangement and for every n >= 0, when the table width
\* is known and not smaller than n.
C7_AbsoluteEveryMode ==
    Arranged =>
        \A i \in 1..Len(table.columns) :
            (/\ HasConstraint(i, "Absolute")
             /\ table.width.some /\ table.width.v >= Bound(i))
            => info_width(infos[i]) = Bound(i)

\* C7: a column with Absolute(Fixed(n)), n greater than the padding of the
\* column, is exactly n wide, padding included, in the Disabled and the
\* Dynamic arrangement, when the table width is known and not smaller than n.
C7_AbsoluteFixed ==
    Arranged =>
        \A i \in 1..Len(table.columns) :
            (/\ HasConstraint(i, "Absolute")
             /\ Bound(i) > get_padding_width(table.columns[i])
             /\ table.arrangement \in {"Disabled", "Dynamic"}
             /\ table.width.some /\ table.width.v >= Bound(i))
            => info_width(infos[i]) = Bound(i)

C7_Witness ==
    /\ Arranged
    /\ table.arrangement = "Dynamic" /\ table.width.some
    /\ HasConstraint(1, "Absolute")
    /\ Bound(1) > get_padding_width(table.columns[1])
    /\ table.width.v >= Bound(1)
    /\ Bound(1) < get_max_width(table.columns[1])
    /\ info_width(infos[1]) = Bound(1)

\* C8: in the Dynamic arrangement with a known table width a column with
\* LowerBoundary(Fixed(l)) ends at least l wide, padding included.
C8_LowerBoundaryKept ==
    (Arranged /\ table.arrangement = "Dynamic" /\ table.width.some) =>
        \A i \in 1..Len(table.columns) :
            HasConstraint(i, "LowerBoundary") => info_width(infos[i]) >= Bound(i)

\* C9: in the Dynamic arrangement with a known table width a column with
\* UpperBoundary(Fixed(u)), u greater than its padding, ends at most u wide,
\* padding included.
C9_UpperBoundaryKept ==
    (Arranged /\ table.arrangement = "Dynamic" /\ table.width.some) =>
        \A i \in 1..Len(table.columns) :
            (/\ HasConstraint(i, "UpperBoundary")
             /\ Bound(i) > get_padding_width(table.columns[i]))
            => info_width(infos[i]) <= Bound(i)

\* C10: in the Disabled arrangement a column with UpperBoundary(Fixed(u)),
\* u greater than its padding, is at most u wide, padding included, and it
\* keeps its content width when content and padding are at most u.
C10_DisabledUpperBoundary ==
    (Arranged /\ table.arrangement = "Disabled") =>
        \A i \in 1..Len(table.columns) :
            (/\ HasConstraint(i, "UpperBoundary")
             /\ Bound(i) > get_padding_width(table.columns[i]))
            => /\ info_width(infos[i]) <= Bound(i)
               /\ get_max_width(table.columns[i]) <= Bound(i)
                    => infos[i].content_width = table.columns[i].max_content_width

---------------------------------------------------------------------------
(* Claims about the arrangement as it shows in the rendered lines *)

\* The lines of a table: the columns are arranged, the rows are formatted
\* and the borders are drawn
Rendered(t, format_order, border_order) ==
    draw_borders(t, format_content(t, arrange_content(t), format_order).table_content,
                 arrange_content(t), border_order)

\* The table fully expanded: the same table in the Disabled arrangement.
\* The table of the claim has no spans and its trackers no entries.
ExpandedOutput ==
    LET hash_order == CHOOSE o \in iteration_orders(table) : TRUE
    IN Rendered([table EXCEPT !.arrangement = "Disabled"], hash_order, hash_order)

ExpandedWidth ==
    SeqMax([i \in 1..Len(ExpandedOutput) |->
                measure_text_width(ExpandedOutput[i].text)])

NoConstraints(t) ==
    \A i \in 1..Len(t.columns) : t.columns[i].constraint = NoConstraint

\* C11: a table without constraints in the Dynamic arrangement whose table
\* width is at least the width of the fully expanded table is rendered as
\* the fully expanded table is: no column is wider or narrower than its
\* content.
C11_DynamicExpanded ==
    (/\ Drawn /\ table.arrangement = "Dynamic" /\ table.width.some
     /\ NoConstraints(table) /\ ~HasRowspan(table)
     /\ table.width.v >= ExpandedWidth)
    => output = ExpandedOutput

\* The borders, the paddings and one column of content per visible column
MinimalWidth(t) ==
    count_border_columns(t, count_visible_columns(t.columns))
    + SeqSum([i \in 1..Len(t.columns) |->
                IF is_hidden(t.columns[i]) THEN 0
                ELSE get_padding_width(t.columns[i]) + 1])

\* C12: in the DynamicFullWidth arrangement without constraints and with a
\* table width of at least the borders, the paddings and one column per
\* visible column, every rendered line is exactly as wide as the table
\* width says: the space left over is spread over the visible columns.
C12_FullWidthLines ==
    (/\ Drawn /\ table.arrangement = "DynamicFullWidth" /\ table.width.some
     /\ NoConstraints(table)
     /\ table.width.v >= MinimalWidth(table))
    => \A i \in 1..Len(output) :
            measure_text_width(output[i].text) = table.width.v

\* The widths of the columns of the table in the Disabled arrangement
DisabledInfos == arrange_content([table EXCEPT !.arrangement = "Disabled"])

\* C13: without a table width the Dynamic and the DynamicFullWidth
\* arrangement give every column the width that the Disabled arrangement
\* gives it for the same table and constraints.
C13_FallbackToDisabled ==
    (/\ Arranged /\ ~table.width.some
     /\ table.arrangement \in {"Dynamic", "DynamicFullWidth"})
    => infos = DisabledInfos

\* A table without a width in the Dynamic arrangement whose first column an
\* upper boundary makes narrower than its content
C13_Witness ==
    /\ Arranged /\ ~table.width.some /\ table.arrangement = "Dynamic"
    /\ HasConstraint(1, "UpperBoundary")
    /\ infos[1].content_width < table.columns[1].max_content_width
    /\ infos = DisabledInfos

\* C14: rendering a table twice gives the same output: the lines do not
\* depend on the order in which the maps of the span trackers iterate.
\* (The table itself is not written to: every action leaves it unchanged.)
C14_Deterministic ==
    Drawn => \A format_order, border_order \in iteration_orders(table) :
                output = Rendered(table, format_order, border_order)


---------------------------------------------------------------------------
(* Claims about rows of a capped height *)

Formatted == pc \in {"draw_borders", "drawn"}

\* The wrapped lines of the cell of row r in column c, before the cap
WrappedLines(r, c) ==
    cell_lines_of(AllRows(table)[r].cells[c].content, infos[c],
                  delimiter(AllRows(table)[r].cells[c], infos[c], table))

\* The cell of row r in the visible column c has more wrapped lines than the
\* max_height of its row
Truncated(r, c) ==
    /\ IsSome(AllRows(table)[r].max_height)
    /\ c <= Len(AllRows(table)[r].cells)
    /\ ~infos[c].is_hidden
    /\ Len(WrappedLines(r, c)) > AllRows(table)[r].max_height[1]

\* The last kept line of the cell of row r in column c, as it is aligned
LastKeptLine(r, c) ==
    table_content[r][AllRows(table)[r].max_height[1]][PartIndex(r - 1, c)]

\* C15: when a cell has more wrapped lines than the max_height of its row,
\* its last kept line with the truncation indicator is at most as wide as
\* the content width of the cell, for every content width of at least 1,
\* also one smaller than the indicator; the aligned line is then exactly as
\* wide as the column with its padding.
C15_IndicatorFits ==
    (Formatted /\ ~HasSpans(table)) =>
        \A r \in 1..Len(AllRows(table)) : \A c \in 1..Len(infos) :
            Truncated(r, c) =>
                measure_text_width(LastKeptLine(r, c)) <= info_width(infos[c])

\* C16: format_row completes for every max_height of a row, 0 included, and
\* every cell of the row then contributes at most max_height lines.
C16_EveryMaxHeight ==
    /\ pc # "panicked"
    /\ Formatted =>
            \A r \in 1..Len(AllRows(table)) :
                IsSome(AllRows(table)[r].max_height) =>
                    Len(table_content[r]) <= AllRows(table)[r].max_height[1]

---------------------------------------------------------------------------
(* Claims about the loops of the dynamic arrangement *)

\* A while loop of dynamic::arrange has returned
LoopDone == pc \in {"lower_boundary", "distribute"}

\* Every pass that another pass follows has given a width to a column
PassesFixColumns ==
    \A k \in 1..(Len(passes) - 1) : passes[k + 1] > passes[k]

---------------------------------------------------------------------------
(* Claims about the passes of split_line *)

SplitDone == pc = "split_done"

\* The pass from a to b has taken an element off the stack for good
Consumes(a, b) == Len(b.elements) < Len(a.elements)

\* The pass from a to b has put a strictly shorter rest of the element back
PutsBackShorter(a, b) ==
    /\ Len(b.elements) = Len(a.elements)
    /\ Len(Head(b.elements)) < Len(Head(a.elements))

\* The pass from a to b has put the whole element back and closed the
\* current line, which was not empty
ClosesLine(a, b) ==
    /\ b.elements = a.elements
    /\ a.current_line # <<>>
    /\ b.current_line = <<>>

\* A fragment with a grapheme wider than the content width has nothing else
WideAlone ==
    \A i \in 1..Len(split_out) :
        (\E k \in 1..Len(split_out[i]) :
            CharWidth(split_out[i][k]) > split_in.content_width)
        => Len(split_out[i]) = 1

\* The loop makes at most two passes for every character of the line and
\* two more
PassesBounded == Len(split_trace) - 1 <= 2 * (Len(split_in.line) + 1)

\* C18 as stated: split_line terminates for every line and every content
\* width of at least 1; every pass of its loop consumes an element or puts
\* back a strictly shorter rest, and a grapheme that can never fit is
\* emitted alone, oversized.
C18_EveryPassShrinks ==
    SplitDone =>
        /\ \A k \in 1..(Len(split_trace) - 1) :
                \/ Consumes(split_trace[k], split_trace[k + 1])
                \/ PutsBackShorter(split_trace[k], split_trace[k + 1])
        /\ PassesBounded
        /\ WideAlone

\* C18 amended: split_line terminates for every line and every content width
\* of at least 1; every pass of its loop consumes an element, puts back a
\* strictly shorter rest, or puts the element back whole while it closes a
\* current line that was not empty, so that the next pass starts on an empty
\* line; and a grapheme that can never fit is emitted alone, oversized.
C18_PassesProgress ==
    SplitDone =>
        /\ \A k \in 1..(Len(split_trace) - 1) :
                \/ Consumes(split_trace[k], split_trace[k + 1])
                \/ PutsBackShorter(split_trace[k], split_trace[k + 1])
                \/ ClosesLine(split_trace[k], split_trace[k + 1])
        /\ PassesBounded
        /\ WideAlone

\* A line with a grapheme that is wider than the content width: it has
\* been emitted alone, and a pass before it has put a shorter rest back
C18_Witness ==
    /\ SplitDone
    /\ split_in.content_width = 1
    /\ \E i \in 1..Len(split_out) : split_out[i] = <<"W">>
    /\ \E k \in 1..(Len(split_trace) - 1) :
            PutsBackShorter(split_trace[k], split_trace[k + 1])

\* The elements of the line: the runs between two delimiters
Elements == str_split(split_in.line, split_in.delimiter, <<>>)

\* The element is one of the runs between the delimiters of a fragment
AppearsWhole(element) ==
    \E i \in 1..Len(split_out) :
        \E k \in 1..Len(str_split(split_out[i], split_in.delimiter, <<>>)) :
            str_split(split_out[i], split_in.delimiter, <<>>)[k] = element

\* C19: split_line cuts inside an element only if that element alone is
\* wider than the content width: a pass puts a rest back only for such an
\* element, and every element that is not empty and at most as wide as the
\* content width is whole inside one fragment.
C19_CutsOnlyLongElements ==
    SplitDone =>
        /\ \A k \in 1..(Len(split_trace) - 1) :
                PutsBackShorter(split_trace[k], split_trace[k + 1])
                => measure_text_width(Head(split_trace[k].elements))
                       > split_in.content_width
        /\ \A e \in 1..Len(Elements) :
                (Elements[e] # <<>>
                 /\ measure_text_width(Elements[e]) <= split_in.content_width)
                => AppearsWhole(Elements[e])

\* An element that fits a line of its own does not fit behind the current
\* line, and starts the next fragment whole
C19_Witness ==
    /\ SplitDone
    /\ split_in.line = <<"a", " ", "W", "W">>
    /\ split_in.content_width = 5 /\ split_in.delimiter = " "
    /\ split_out = <<<<"a">>, <<"W", "W">>>>

---------------------------------------------------------------------------
(* Claims about widths given as a percentage *)

\* Column i has an absolute width of a percentage, and the table a width
AbsolutePercentage(i) ==
    /\ table.width.some
    /\ table.columns[i].constraint.kind = "Absolute"
    /\ table.columns[i].constraint.width.kind = "Percentage"

\* The percentage of the table width without its borders, at most 100 of it
ClampedShare(i) ==
    ((table.width.v
        - count_border_columns(table, count_visible_columns(table.columns)))
     * Min(table.columns[i].constraint.width.v, 100)) \div 100

\* C20: with a known table width the constraints of a column with
\* Absolute(Percentage(p)) resolve to the width
\* floor((table width - border characters) * min(p, 100) / 100), its padding
\* included, so that every p above 100 gives what 100 gives.
C20_PercentageClamped ==
    pc = "arrange" =>
        \A i \in 1..Len(table.columns) :
            (AbsolutePercentage(i) /\ i \in DOMAIN infos) =>
                infos[i].content_width
                    = absolute_width_with_padding(table.columns[i], ClampedShare(i))

---------------------------------------------------------------------------
(* The table built call by call: set_header and add_row in any order *)

MaxCalls == 3        \* calls of set_header and add_row on one table

\* The rows given to the calls: one or two cells, a cell of two lines, an
\* empty cell and a cell with a grapheme two columns wide among them
GivenRows ==
    {Row_from(<<c>>) : c \in {Empty, Short, Words, WideText}}
    \cup {Row_from(<<c1, c2>>) : c1 \in {Short, Words}, c2 \in {Empty, Short, WideText}}
    \cup {add_cell(Row_from(<<>>), Cell_new(TwoLines))}

InitTable ==
    /\ pc = "build"
    /\ table = Table_new
    /\ added = <<>>
    /\ split_in = NoSplit
    /\ split_out = <<>>
    /\ split_trace = <<>>
    /\ infos = <<>>
    /\ remaining_width = 0
    /\ remaining_columns = 0
    /\ passes = <<>>
    /\ table_content = <<>>
    /\ padded = NotPadded
    /\ row_tracker = NoTracker
    /\ tracked_row = 0
    /\ placed_cells = {}
    /\ output = <<>>

SetHeader ==
    /\ pc = "build"
    /\ Len(added) < MaxCalls
    /\ \E row \in GivenRows :
            /\ table' = set_header(table, row)
            /\ added' = Append(added, row)
    /\ UNCHANGED <<pc, splitVars, arrangeVars, renderVars, trackerVars>>

AddRow ==
    /\ pc = "build"
    /\ Len(added) < MaxCalls
    /\ \E row \in GivenRows :
            /\ table' = add_row(table, row)
            /\ added' = Append(added, row)
    /\ UNCHANGED <<pc, splitVars, arrangeVars, renderVars, trackerVars>>

NextTable == SetHeader \/ AddRow

SpecTable == InitTable /\ [][NextTable]_vars

---------------------------------------------------------------------------
(* Claims about the content width of the columns *)

\* The display widths of the lines of the cells given to column i so far
GivenWidths(i) ==
    UNION {{measure_text_width(added[r].cells[i].content[l]) :
                l \in 1..Len(added[r].cells[i].content)} :
            r \in {q \in 1..Len(added) : i <= Len(added[q].cells)}} \cup {0}

Largest(S) == CHOOSE m \in S : \A n \in S : n <= m

\* C21: after any sequence of set_header and add_row calls the
\* max_content_width of every column is the largest display width of a
\* content line of the cells given to that column so far.
C21_MaxContentWidth ==
    pc = "build" =>
        \A i \in 1..Len(table.columns) :
            table.columns[i].max_content_width = Largest(GivenWidths(i))

---------------------------------------------------------------------------
(* The smart padding between the content and the borders *)

MaxSmartPadding == 3     \* the largest smart_padding_width of a table

\* The style of the tests of the smart padding: presets::NOTHING with a
\* header line, so that the columns are separated by one blank
SmartStyle ==
    [c \in TableComponents |->
        CASE c = "HeaderLines" -> "-"
          [] c = "MiddleHeaderIntersections" -> " "
          [] OTHER -> None]

OneChar == <<"a">>
SmartRows ==
    {Row_from(<<c1, c2>>) : c1 \in {OneChar, Short}, c2 \in {OneChar, Short}}
    \cup {Row_from(<<c1, c2, Short>>) : c1 \in {OneChar, Short}, c2 \in {OneChar, Short}}

SmartPaddings == {<<0, 0>>, <<1, 1>>}
SmartAlignments == {<<None, None>>, <<None, "Right">>, <<"Right", None>>,
                    <<"Right", "Right">>, <<"Center", None>>, <<"Center", "Right">>}
SmartConstraints == {NoConstraint, UpperBoundary(Fixed(3))}
SmartModes ==
    {<<"Disabled", NoWidth>>, <<"Disabled", SomeWidth(7)>>,
     <<"DynamicFullWidth", SomeWidth(8)>>}
    \cup {<<"Dynamic", SomeWidth(w)>> : w \in 5..9}

\* The columns get their padding and the first two their alignment
RECURSIVE set_paddings(_, _, _)
set_paddings(t, padding, i) ==
    IF i > Len(t.columns) THEN t
    ELSE set_paddings(set_padding(t, i, padding), padding, i + 1)

RECURSIVE set_cell_alignments(_, _, _)
set_cell_alignments(t, alignments, i) ==
    IF i > Len(t.columns) \/ i > Len(alignments) THEN t
    ELSE set_cell_alignments(
            IF alignments[i] = None THEN t
            ELSE set_cell_alignment(t, i, alignments[i]),
            alignments, i + 1)

SmartTable(row, padding, alignments, constraint, mode, width) ==
    [set_smart_padding_width(
        set_constraint(
            set_cell_alignments(
                set_paddings(
                    add_row(set_header([Table_new EXCEPT !.style = SmartStyle],
                                       Row_from([i \in 1..Len(row.cells) |-> Short])),
                            row),
                    padding, 1),
                alignments, 1),
            2, constraint),
        width)
     EXCEPT !.arrangement = mode[1], !.width = mode[2]]

InitSmartPad ==
    /\ pc = "evaluate"
    /\ \E row \in SmartRows, padding \in SmartPaddings,
          alignments \in SmartAlignments, constraint \in SmartConstraints,
          mode \in SmartModes, width \in 0..MaxSmartPadding :
            table = SmartTable(row, padding, alignments, constraint, mode, width)
    /\ added = table.header \o table.rows
    /\ infos = <<>>
    /\ remaining_width = 0
    /\ remaining_columns = 0
    /\ passes = <<>>
    /\ split_in = NoSplit
    /\ split_out = <<>>
    /\ split_trace = <<>>
    /\ table_content = <<>>
    /\ padded = NotPadded
    /\ row_tracker = NoTracker
    /\ tracked_row = 0
    /\ placed_cells = {}
    /\ output = <<>>

\* build_table: the smart padding of the content; the build has overflow
\* checks or it has none
SmartPadContent ==
    /\ pc = "draw_borders"
    /\ \E overflow_checks \in BOOLEAN :
        \E st \in {smart_pad_content(table, table_content, infos, overflow_checks)} :
            /\ padded' = st
            /\ pc' = IF st.panicked THEN "panicked" ELSE "smart_padded"
    /\ UNCHANGED <<buildVars, trackerVars, arrangeVars, splitVars, table_content, output>>

NextSmartPad == NextArrange \/ FormatContent \/ SmartPadContent

SpecSmartPad == InitSmartPad /\ [][NextSmartPad]_vars

---------------------------------------------------------------------------
(* Claims about the smart padding *)

SmartPadded == pc \in {"smart_padded", "panicked"}

\* The content width that the pass has added to the visible columns
PaddingGrowth ==
    SeqSum([i \in 1..Len(padded.display_infos) |->
                padded.display_infos[i].content_width
                    - visible_display_infos(infos)[i].content_width])

---------------------------------------------------------------------------
(* Claims about the lines inside a colspan cell *)

\* The place, in a line of the output, of the boundary behind column v
BoundaryPlace(v) ==
    1 + SeqSum([c \in 1..Len(infos) |->
                    IF c <= v /\ ~infos[c].is_hidden
                    THEN info_width(infos[c]) + 1 ELSE 0])

\* The boundaries between the visible columns of a placed cell
InteriorBoundaries(q) ==
    {BoundaryPlace(v) : v \in {c \in VisibleColumns(q) :
                                    \E d \in VisibleColumns(q) : c < d}}

\* A cell over several columns in one row only
ColspanCells ==
    {q \in Placements(table) : q.colspan > 1 /\ q.rowspan = 1}

\* C23: inside the column range of a colspan cell the content lines of its
\* row hold no vertical line at the boundaries between its columns, and the
\* separator below the row holds the horizontal line there, not an
\* intersection.
C23_ColspanInterior ==
    Drawn =>
        \A q \in ColspanCells : \A place \in InteriorBoundaries(q) :
            \A i \in 1..Len(output) :
                output[i].row = q.row =>
                    /\ place <= Len(output[i].text)
                    /\ output[i].kind \in {"header", "content"}
                        => output[i].text[place] # style_or_default(table, "VerticalLines")
                    /\ output[i].kind = "separator"
                        => output[i].text[place] = style_or_default(table, "HorizontalLines")
                    /\ output[i].kind = "header_separator"
                        => output[i].text[place] = style_or_default(table, "HeaderLines")

---------------------------------------------------------------------------
(* The span tracker on its own: the cells of row after row are placed from *)
(* left to right, and advance_row is called once behind every row          *)

TrackerCols == 2     \* columns of the rows
TrackerRows == 4     \* rows that are processed
MaxRowspan == 3      \* the largest rowspan of a cell

\* Two iteration orders of a map with entries from TrackerRows rows: the
\* earlier row first, the later row first
TrackerOrders ==
    {[r \in 0..(TrackerRows - 1) |-> r + 1],
     [r \in 0..(TrackerRows - 1) |-> TrackerRows - r]}

InitTracker ==
    /\ pc = "row"
    /\ \E hash_order \in TrackerOrders : row_tracker = SpanTracker_new(hash_order)
    /\ tracked_row = 0
    /\ placed_cells = {}
    /\ table = NoTable
    /\ added = <<>>
    /\ split_in = NoSplit
    /\ split_out = <<>>
    /\ split_trace = <<>>
    /\ infos = <<>>
    /\ remaining_width = 0
    /\ remaining_columns = 0
    /\ passes = <<>>
    /\ table_content = <<>>
    /\ padded = NotPadded
    /\ output = <<>>

\* The columns of the row that no cell of the row and no rowspan from above
\* holds, right of the cells placed in the row so far
FreeColumns ==
    {c \in 1..TrackerCols :
        /\ ~is_col_occupied_by_rowspan(row_tracker, tracked_row, c)
        /\ \A q \in placed_cells :
                q.start_row = tracked_row => q.start_col + q.colspan <= c}

\* format_row: the next cell of the row goes to the first free column and
\* is registered with its spans
PlaceCell ==
    /\ pc = "row"
    /\ tracked_row < TrackerRows
    /\ FreeColumns # {}
    /\ \E c \in {f \in FreeColumns : \A g \in FreeColumns : f <= g} :
        \E rowspan \in 1..MaxRowspan, colspan \in 1..TrackerCols :
            /\ \A d \in c..(c + colspan - 1) : d \in FreeColumns
            /\ row_tracker' = register_rowspan(row_tracker, tracked_row, c,
                                                rowspan, colspan, <<>>)
            /\ placed_cells' = placed_cells
                    \cup {[start_row |-> tracked_row, start_col |-> c,
                           rowspan |-> rowspan, colspan |-> colspan]}
    /\ UNCHANGED <<pc, tracked_row, buildVars, splitVars, arrangeVars, renderVars>>

\* format_content: the row is done, span_tracker.advance_row(row_index + 1)
AdvanceRow ==
    /\ pc = "row"
    /\ tracked_row < TrackerRows
    /\ row_tracker' = advance_row(row_tracker, tracked_row + 1)
    /\ tracked_row' = tracked_row + 1
    /\ UNCHANGED <<pc, placed_cells, buildVars, splitVars, arrangeVars, renderVars>>

NextTracker == PlaceCell \/ AdvanceRow

SpecTracker == InitTracker /\ [][NextTracker]_vars

---------------------------------------------------------------------------
(* Claims about the span tracker *)

\* The last row a placed cell covers
LastRow(q) == q.start_row + q.rowspan - 1

\* The placed cell an entry of the tracker was registered for
CellOf(e) ==
    CHOOSE q \in placed_cells :
        q.start_row = e.start_row /\ q.start_col = e.start_col

\* C24: after every advance_row call the tracker holds no entry with
\* remaining_rows = 0.
C24_NoExpiredEntry ==
    pc = "row" => \A e \in row_tracker.active_spans : e.remaining_rows # 0

\* C24, amended: advance_row first purges the entries whose remaining_rows
\* is 0 and then decrements the entries from earlier rows, so the tracker
\* holds the entry of a rowspan cell up to the last row the cell covers, and
\* behind an advance_row call remaining_rows is the count of rows the cell
\* covers below the row that is processed next: 0 in its last row.
C24_PurgedAfterLastRow ==
    pc = "row" =>
        /\ \A e \in row_tracker.active_spans :
                \/ e.start_row = tracked_row /\ e.remaining_rows = CellOf(e).rowspan - 1
                \/ /\ e.start_row < tracked_row
                   /\ e.remaining_rows = LastRow(CellOf(e)) - tracked_row
        /\ \A q \in placed_cells :
                (q.rowspan > 1 /\ tracked_row <= LastRow(q)) =>
                    \E e \in row_tracker.active_spans :
                        e.start_row = q.start_row /\ e.start_col = q.start_col

\* A rowspan cell in its last row: its entry has remaining_rows = 0 and is
\* still in the tracker
C24_Witness ==
    /\ pc = "row"
    /\ \E e \in row_tracker.active_spans :
            /\ e.remaining_rows = 0
            /\ CellOf(e).rowspan = 3
            /\ tracked_row = e.start_row + 2

---------------------------------------------------------------------------
(* C25: the slots the tracker reports as occupied *)

\* A placed cell from a row above covers the slot
Covered(r, c) ==
    \E q \in placed_cells :
        /\ q.start_row < r /\ r <= LastRow(q)
        /\ q.start_col <= c /\ c < q.start_col + q.colspan

\* C25: with the rows processed in increasing order and advance_row(r + 1)
\* called once behind row r, a slot of the row that is processed is reported
\* occupied exactly when a registered cell from a row above covers it with
\* its rowspan and its colspan; no slot is reported occupied behind the last
\* row of the rowspan.
C25_OccupiedWhileCovered ==
    pc = "row" =>
        \A c \in 1..TrackerCols :
            is_col_occupied_by_rowspan(row_tracker, tracked_row, c)
                <=> Covered(tracked_row, c)

\* The row behind the last row of a cell with rowspan 2: the slot below the
\* cell is free again, and the rowspan of another cell covers the other slot
C25_Witness ==
    /\ pc = "row"
    /\ \E q \in placed_cells :
            /\ q.rowspan = 2 /\ tracked_row = LastRow(q) + 1
            /\ ~is_col_occupied_by_rowspan(row_tracker, tracked_row, q.start_col)
    /\ \E c \in 1..TrackerCols :
            is_col_occupied_by_rowspan(row_tracker, tracked_row, c)

---------------------------------------------------------------------------
(* split_line: an element that does not fit behind the current line *)

\* The element at the head of the stack does not fit into the current line
DoesNotFit(a) ==
    /\ a.elements # <<>>
    /\ measure_text_width(Head(a.elements)) + measure_text_width(a.current_line)
       + (IF a.current_line # <<>> THEN 1 ELSE 0) > split_in.content_width

\* The room that is left in the current line, behind a delimiter if the
\* line is not empty
Headroom(a) ==
    IF a.current_line # <<>>
    THEN saturating_sub(split_in.content_width
                        - measure_text_width(a.current_line), 1)
    ELSE split_in.content_width - measure_text_width(a.current_line)

\* <<elements, current_line, lines>> behind the pass that starts at a, with
\* only the fragments that this pass has closed
StepOf(a) ==
    split_step(a.elements, a.current_line, <<>>, split_in.content_width,
               split_in.delimiter)

\* The current line is closed as it is and the element is put back whole
ClosedAndRetried(a) ==
    StepOf(a) = <<a.elements, <<>>, <<a.current_line>>>>

\* The current line, with a delimiter behind it if it was not empty
Started(a) ==
    IF a.current_line = <<>> THEN <<>>
    ELSE Append(a.current_line, split_in.delimiter)

\* The element is cut behind its first n characters: they close the current
\* line, the rest goes back on the stack, and no further character of the
\* element would have fit into the room that was left
CutFillsRoom(a, n) ==
    /\ StepOf(a) = <<<<SubSeq(Head(a.elements), n + 1, Len(Head(a.elements)))>>
                       \o Tail(a.elements),
                     <<>>,
                     <<Started(a) \o SubSeq(Head(a.elements), 1, n)>>>>
    /\ measure_text_width(SubSeq(Head(a.elements), 1, n)) <= Headroom(a)
    /\ n < Len(Head(a.elements))
       => measure_text_width(SubSeq(Head(a.elements), 1, n + 1)) > Headroom(a)

HardSplitFills(a) ==
    \E n \in 0..Len(Head(a.elements)) : CutFillsRoom(a, n)

\* Nothing of the element fits into an empty line: its first character is
\* taken all the same
FirstCharAlone(a) ==
    /\ a.current_line = <<>>
    /\ CharWidth(Head(Head(a.elements))) > split_in.content_width
    /\ StepOf(a) = <<<<Tail(Head(a.elements))>> \o Tail(a.elements),
                     <<>>,
                     <<<<Head(Head(a.elements))>>>>>>

\* The current line is closed as it is and the element starts the next
\* fragment whole
StartsNextFragment(a) ==
    \/ StepOf(a) = <<Tail(a.elements), Head(a.elements), <<a.current_line>>>>
    \/ StepOf(a) = <<Tail(a.elements), <<>>,
                     <<a.current_line, Head(a.elements)>>>>

\* C26 as stated: when the next element does not fit into the current
\* fragment, a fragment that is not empty and has at least 3 characters of
\* room left is closed as it is and the element is retried on a fresh
\* fragment; otherwise the element is hard-split so that its first part fills
\* the remaining room (a grapheme that can never fit is emitted alone).
C26_RoomClosesFragment ==
    SplitDone =>
        \A k \in 1..Len(split_trace) :
            DoesNotFit(split_trace[k]) =>
                IF split_trace[k].current_line # <<>>
                   /\ Headroom(split_trace[k]) >= 3
                THEN ClosedAndRetried(split_trace[k])
                ELSE HardSplitFills(split_trace[k])
                     \/ FirstCharAlone(split_trace[k])

\* C26 amended: when the next element does not fit into the current
\* fragment, a fragment that is not empty and has at most 2 characters of
\* room left behind a delimiter is closed as it is and the element is retried
\* on a fresh fragment; otherwise an element that is wider than the content
\* width is hard-split so that its first part fills the remaining room (its
\* first character alone if nothing of it fits into an empty fragment), and
\* an element that is at most as wide as the content width closes the
\* fragment as it is and starts the next fragment whole.
C26_NoRoomClosesFragment ==
    SplitDone =>
        \A k \in 1..Len(split_trace) :
            DoesNotFit(split_trace[k]) =>
                IF split_trace[k].current_line # <<>>
                   /\ Headroom(split_trace[k]) <= 2
                THEN ClosedAndRetried(split_trace[k])
                ELSE IF measure_text_width(Head(split_trace[k].elements))
                        > split_in.content_width
                THEN HardSplitFills(split_trace[k])
                     \/ FirstCharAlone(split_trace[k])
                ELSE StartsNextFragment(split_trace[k])

\* A line with a pass that closes a fragment with little room and puts the
\* element back, and a pass that cuts an element and puts a rest of it back
C26_Witness ==
    /\ SplitDone
    /\ \E k \in 1..Len(split_trace) :
            /\ DoesNotFit(split_trace[k])
            /\ split_trace[k].current_line # <<>>
            /\ Headroom(split_trace[k]) <= 2
            /\ ClosedAndRetried(split_trace[k])
    /\ \E k \in 1..Len(split_trace) :
            /\ DoesNotFit(split_trace[k])
            /\ HardSplitFills(split_trace[k])
            /\ Len(Head(split_trace[k + 1].elements)) > 0

---------------------------------------------------------------------------
(* split_line: the content of the fragments *)

\* The fragments one behind the other
RECURSIVE Concat(_)
Concat(fragments) ==
    IF fragments = <<>> THEN <<>>
    ELSE Head(fragments) \o Concat(Tail(fragments))

\* The text without its delimiter characters
RECURSIVE WithoutDelimiters(_, _)
WithoutDelimiters(s, delim) ==
    IF s = <<>> THEN <<>>
    ELSE IF Head(s) = delim THEN WithoutDelimiters(Tail(s), delim)
    ELSE <<Head(s)>> \o WithoutDelimiters(Tail(s), delim)

\* C29: split_line neither loses, duplicates nor reorders content: the
\* fragments it returns, one behind the other and without the delimiter
\* characters, are the line without its delimiter characters.
C29_ContentKept ==
    SplitDone =>
        WithoutDelimiters(Concat(split_out), split_in.delimiter)
            = WithoutDelimiters(split_in.line, split_in.delimiter)

\* A line of two elements of which the second is cut: three fragments, and
\* a pass that has put a rest of an element back
C29_Witness ==
    /\ SplitDone
    /\ Len(split_out) >= 3
    /\ Len(Elements) = 2
    /\ \E k \in 1..(Len(split_trace) - 1) :
            PutsBackShorter(split_trace[k], split_trace[k + 1])

---------------------------------------------------------------------------
(* dynamic::arrange, step 5: the lower boundaries behind the enforcement *)

\* enforce_lower_boundary_constraints has returned
LowerBoundaryEnforced == pc = "optimize" /\ remaining_columns > 0

\* The column is still flexible and its LowerBoundary is larger than the
\* average of the width that remains
BelowLowerBoundary(i) ==
    /\ i \notin DOMAIN infos
    /\ get_min_constraint(table, table.columns[i].constraint, table.width,
                          count_visible_columns(table.columns)).some
    /\ get_min_constraint(table, table.columns[i].constraint, table.width,
                          count_visible_columns(table.columns)).v
       > remaining_width \div remaining_columns

\* C27: the lower-boundary enforcement is repeated until stable: when it
\* returns, no column that is still flexible has a LowerBoundary larger than
\* the current average width, also when fixing a later column has shrunk the
\* average seen by earlier columns.
C27_LowerBoundaryStable ==
    LowerBoundaryEnforced =>
        \A i \in 1..Len(table.columns) : ~BelowLowerBoundary(i)

---------------------------------------------------------------------------
(* Tables whose style has only some of its components set *)

MaxStyleRoles == 3    \* the most components a partial style has set

\* The sets of at most n components
RECURSIVE RoleSets(_)
RoleSets(n) ==
    IF n = 0 THEN {{}}
    ELSE RoleSets(n - 1)
         \cup {S \cup {c} : S \in RoleSets(n - 1), c \in TableComponents}

\* Table::set_style for the components of S after presets::NOTHING: they
\* have the characters of ASCII_FULL, the others have none
StyleOf(S) ==
    [c \in TableComponents |-> IF c \in S THEN ASCII_FULL[c] ELSE None]

StyleRows == {Row_from(<<Short, Words, Short>>), Row_from(<<Short, Short>>)}
StyleSecondRows == {<<>>, <<Row_from(<<Short, Short>>)>>}
StyleConstraints == {NoConstraint, Hidden}
StyleModes == {<<"Disabled", NoWidth>>, <<"Dynamic", SomeWidth(12)>>}

StyledTable(S, header, row1, row2, k1, mode) ==
    [PlainTable(header, row1, row2, k1, NoConstraint, mode)
        EXCEPT !.style = StyleOf(S)]

InitStyle ==
    /\ pc = "evaluate"
    /\ \E S \in RoleSets(MaxStyleRoles) \cup {TableComponents},
          header \in PlainHeaders, row1 \in StyleRows, row2 \in StyleSecondRows,
          k1 \in StyleConstraints, mode \in StyleModes :
            table = StyledTable(S, header, row1, row2, k1, mode)
    /\ added = table.header \o table.rows
    /\ infos = <<>>
    /\ remaining_width = 0
    /\ remaining_columns = 0
    /\ passes = <<>>
    /\ split_in = NoSplit
    /\ split_out = <<>>
    /\ split_trace = <<>>
    /\ table_content = <<>>
    /\ padded = NotPadded
    /\ row_tracker = NoTracker
    /\ tracked_row = 0
    /\ placed_cells = {}
    /\ output = <<>>

SpecStyle == InitStyle /\ [][NextRender]_vars

BorderKinds == {"top", "bottom", "header_separator", "separator"}
ContentKinds == {"header", "content"}

\* The characters of a line that belong to no column and to no outer border:
\* what stands between the visible columns
BetweenColumns(line) ==
    measure_text_width(line.text)
    - SeqSum([c \in 1..Len(infos) |->
                 IF infos[c].is_hidden THEN 0 ELSE info_width(infos[c])])
    - (IF should_draw_left_border(table) THEN 1 ELSE 0)
    - (IF should_draw_right_border(table) THEN 1 ELSE 0)

\* C28: for every assignment of characters to the components of the style,
\* the top border, the bottom border, the header separator and the row
\* separators of a table without spans are as wide as its content lines: a
\* character stands between two visible columns in a border or separator
\* line exactly when a vertical line stands between them in the content
\* lines.
C28_BordersAsWideAsContent ==
    (Drawn /\ ~HasSpans(table)) =>
        \A i, j \in 1..Len(output) :
            (output[i].kind \in BorderKinds /\ output[j].kind \in ContentKinds)
            => /\ measure_text_width(output[i].text)
                  = measure_text_width(output[j].text)
               /\ BetweenColumns(output[i]) = BetweenColumns(output[j])

---------------------------------------------------------------------------
(* The span tracker of format_content and the span tracker of draw_borders *)

\* The entries of a tracker without the lines they cache
SpanEntries(tracker) ==
    {[start_row |-> e.start_row, start_col |-> e.start_col,
      remaining_rows |-> e.remaining_rows, colspan |-> e.colspan] :
        e \in tracker.active_spans}

\* format_content: the tracker behind format_row of row r
FormatterTracker(t, display_info, r, tracker) ==
    format_row(AllRows(t)[r + 1], display_info, t, r, tracker)[2]

\* format_content: the entries of its tracker behind every row from row r
\* on, before advance_row
RECURSIVE FormatterSpans(_, _, _, _)
FormatterSpans(t, display_info, r, tracker) ==
    IF r >= Len(AllRows(t)) THEN <<>>
    ELSE <<SpanEntries(FormatterTracker(t, display_info, r, tracker))>>
         \o FormatterSpans(t, display_info, r + 1,
                advance_row(FormatterTracker(t, display_info, r, tracker), r + 1))

\* draw_rows: the tracker behind the registration of the cells of row r
BorderTracker(t, display_info, r, tracker) ==
    IF r = 0 /\ IsSome(t.header)
    THEN register_header_cells(tracker, t.header[1].cells, 1)
    ELSE register_row_cells(tracker, AllRows(t)[r + 1].cells, r, 1,
                            Len(display_info))

\* draw_rows: the entries of its tracker behind every row from row r on,
\* before advance_row
RECURSIVE BorderSpans(_, _, _, _)
BorderSpans(t, display_info, r, tracker) ==
    IF r >= Len(AllRows(t)) THEN <<>>
    ELSE <<SpanEntries(BorderTracker(t, display_info, r, tracker))>>
         \o BorderSpans(t, display_info, r + 1,
                advance_row(BorderTracker(t, display_info, r, tracker), r + 1))

\* C30: the span tracker of the border renderer agrees with the one of the
\* content formatter: behind every row both hold the same rowspan entries
\* (start row, start column, rows that remain, colspan), so that both place
\* the cells of the next row at the same columns, also when a spanning cell
\* lies in or covers hidden columns, when the header has rowspan cells, or
\* when the cells of a row run past the last column.
C30_TrackersAgree ==
    Drawn =>
        \A hash_order \in iteration_orders(table) :
            FormatterSpans(table, infos, 0, SpanTracker_new(hash_order))
            = BorderSpans(table, infos, 0, SpanTracker_new(hash_order))

====
